---- MODULE Spec2Model ----
(***************************************************************************)
(* php2node_cli: endpoint resolution and PHP method-block extraction.      *)
(*                                                                         *)
(* Text is a sequence of one-character strings.  Python offsets are        *)
(* 0-based, so the character at Python offset k of s is s[k + 1].          *)
(* An Optional value is a set with at most one element: None is {} and a   *)
(* present value x is {x}.                                                 *)
(***************************************************************************)
EXTENDS Integers, Sequences, FiniteSets, TLC

VARIABLES
    source,      \* _scan_braces_php: the text being scanned
    start_idx,   \* _scan_braces_php: the offset the scan starts from
    sc,          \* _scan_braces_php: the locals of the running scan
    file,        \* extract_method_block: the decoded controller file
    method_name, \* extract_method_block: the method looked for
    ext,         \* extract_method_block: the returned MethodExtractResult, if any
    reext,       \* extract_method_block: what a second call on the same file returned, if any
    fs_files,    \* the files under the repo root: path, classes named in it, readable
    fs_dirs,     \* the directories that exist without a file of fs_files below them
    controller,  \* probe_controller_file: the controller asked for
    version,     \* probe_controller_file: the version asked for
    app_choice,  \* probe_controller_file: api, portal or auto
    resolved,    \* resolve_controller: the returned ResolvedEndpoint, if any
    rows,        \* Inventory.rows
    query,       \* the arguments of the call made on the inventory, if any
    answer,      \* what that call returned or raised, if any
    workbook,    \* Inventory.load: the workbook at xlsx_path
    sheet_name,  \* Inventory.load: the sheet asked for
    loaded,      \* Inventory.load: the Inventory returned or the error raised, if any
    argv,        \* main: the flags typed on the command line
    environ,     \* main: the environment, after .env was read
    args,        \* main: the parsed command line
    run          \* main: its position, its locals, what it wrote and its exit status

vars == <<source, start_idx, sc, file, method_name, ext, reext,
          fs_files, fs_dirs, controller, version, app_choice, resolved,
          rows, query, answer, workbook, sheet_name, loaded, argv, environ, args, run>>

\* the variables of Inventory.load
loader_vars == <<workbook, sheet_name, loaded>>

\* the variables of main
main_vars == <<argv, environ, args, run>>

\* the variables of the inventory
inventory_vars == <<rows, query, answer>>

\* the variables of the resolver
resolver_vars == <<fs_files, fs_dirs, controller, version, app_choice, resolved>>

\* the variables of the scanner and the extractor
extractor_vars == <<source, start_idx, sc, file, method_name, ext, reext>>

None == {}

Some(x) == {x}

\* ------------------------------------------------------------------ text

\* s[k] of Python, "" past the end (the code's own guard for nxt)
At(s, k) == IF k >= 0 /\ k < Len(s) THEN s[k + 1] ELSE ""

\* s[a:b] of Python, for 0 <= a
Slice(s, a, b) == SubSeq(s, a + 1, IF b > Len(s) THEN Len(s) ELSE b)

RECURSIVE Flatten(_)
Flatten(ss) == IF ss = <<>> THEN <<>> ELSE Head(ss) \o Flatten(Tail(ss))

RECURSIVE SeqsUpTo(_, _)
\* every sequence of at most k elements of S
SeqsUpTo(S, k) ==
    IF k = 0 THEN {<<>>}
    ELSE LET shorter == SeqsUpTo(S, k - 1)
         IN  shorter \cup {Append(s, x) : s \in shorter, x \in S}

Min(S) == CHOOSE x \in S : \A y \in S : x <= y

\* s.count(c, a, b) of Python
Count(s, c, a, b) == Cardinality({k \in a .. (b - 1) : At(s, k) = c})

\* ------------------------------------------------- _scan_braces_php

ScanStart(src, start) ==
    [pc |-> "seek", i |-> start, brace |-> 0,
     in_squote |-> FALSE, in_dquote |-> FALSE,
     in_line_comment |-> FALSE, in_block_comment |-> FALSE,
     escape |-> FALSE, ret |-> None]

\* while i < n and source[i] != "{": i += 1 ; if i >= n: return None
SeekStep(src, s) ==
    IF s.i < Len(src) /\ At(src, s.i) # "{"
    THEN [s EXCEPT !.i = s.i + 1]
    ELSE IF s.i >= Len(src)
         THEN [s EXCEPT !.pc = "done", !.ret = None]
         ELSE [s EXCEPT !.pc = "loop"]

\* the newline that ends the comment is read again as code
LineCommentStep_RereadsNewline(src, s) ==
    IF At(src, s.i) = "\n" THEN [s EXCEPT !.in_line_comment = FALSE]
    ELSE [s EXCEPT !.i = s.i + 1]

LineCommentStep(src, s) ==
    [s EXCEPT !.in_line_comment = (At(src, s.i) # "\n"), !.i = s.i + 1]

BlockCommentStep(src, s) ==
    IF At(src, s.i) = "*" /\ At(src, s.i + 1) = "/"
    THEN [s EXCEPT !.in_block_comment = FALSE, !.i = s.i + 2]
    ELSE [s EXCEPT !.i = s.i + 1]

\* a backslash that escapes nothing
SQuoteStep_NoEscape(src, s) ==
    IF At(src, s.i) = "'" THEN [s EXCEPT !.in_squote = FALSE, !.i = s.i + 1]
    ELSE [s EXCEPT !.i = s.i + 1]

\* the closing quote is looked for before the escape flag
SQuoteStep_QuoteBeforeEscape(src, s) ==
    IF At(src, s.i) = "'" THEN [s EXCEPT !.in_squote = FALSE, !.i = s.i + 1]
    ELSE IF s.escape THEN [s EXCEPT !.escape = FALSE, !.i = s.i + 1]
    ELSE IF At(src, s.i) = "\\" THEN [s EXCEPT !.escape = TRUE, !.i = s.i + 1]
    ELSE [s EXCEPT !.i = s.i + 1]

SQuoteStep(src, s) ==
    IF s.escape THEN [s EXCEPT !.escape = FALSE, !.i = s.i + 1]
    ELSE IF At(src, s.i) = "\\" THEN [s EXCEPT !.escape = TRUE, !.i = s.i + 1]
    ELSE IF At(src, s.i) = "'" THEN [s EXCEPT !.in_squote = FALSE, !.i = s.i + 1]
    ELSE [s EXCEPT !.i = s.i + 1]

\* the escape flag is not cleared by the character it escapes
DQuoteStep_EscapeKept(src, s) ==
    IF s.escape THEN [s EXCEPT !.i = s.i + 1]
    ELSE IF At(src, s.i) = "\\" THEN [s EXCEPT !.escape = TRUE, !.i = s.i + 1]
    ELSE IF At(src, s.i) = "\"" THEN [s EXCEPT !.in_dquote = FALSE, !.i = s.i + 1]
    ELSE [s EXCEPT !.i = s.i + 1]

DQuoteStep(src, s) ==
    IF s.escape THEN [s EXCEPT !.escape = FALSE, !.i = s.i + 1]
    ELSE IF At(src, s.i) = "\\" THEN [s EXCEPT !.escape = TRUE, !.i = s.i + 1]
    ELSE IF At(src, s.i) = "\"" THEN [s EXCEPT !.in_dquote = FALSE, !.i = s.i + 1]
    ELSE [s EXCEPT !.i = s.i + 1]

\* "#" taken for an ordinary character
NormalStep_NoHashComment(src, s) ==
    LET ch  == At(src, s.i)
        nxt == At(src, s.i + 1)
    IN  IF ch = "/" /\ nxt = "/" THEN [s EXCEPT !.in_line_comment = TRUE, !.i = s.i + 2]
        ELSE IF ch = "/" /\ nxt = "*" THEN [s EXCEPT !.in_block_comment = TRUE, !.i = s.i + 2]
        ELSE IF ch = "'" THEN [s EXCEPT !.in_squote = TRUE, !.i = s.i + 1]
        ELSE IF ch = "\"" THEN [s EXCEPT !.in_dquote = TRUE, !.i = s.i + 1]
        ELSE IF ch = "{" THEN [s EXCEPT !.brace = s.brace + 1, !.i = s.i + 1]
        ELSE IF ch = "}"
             THEN IF s.brace - 1 = 0
                  THEN [s EXCEPT !.brace = 0, !.pc = "done", !.ret = Some(s.i)]
                  ELSE [s EXCEPT !.brace = s.brace - 1, !.i = s.i + 1]
        ELSE [s EXCEPT !.i = s.i + 1]

\* the step taken outside strings and comments
NormalStep(src, s) ==
    LET ch  == At(src, s.i)
        nxt == At(src, s.i + 1)
    IN  IF ch = "/" /\ nxt = "/" THEN [s EXCEPT !.in_line_comment = TRUE, !.i = s.i + 2]
        ELSE IF ch = "/" /\ nxt = "*" THEN [s EXCEPT !.in_block_comment = TRUE, !.i = s.i + 2]
        ELSE IF ch = "#" THEN [s EXCEPT !.in_line_comment = TRUE, !.i = s.i + 1]
        ELSE IF ch = "'" THEN [s EXCEPT !.in_squote = TRUE, !.i = s.i + 1]
        ELSE IF ch = "\"" THEN [s EXCEPT !.in_dquote = TRUE, !.i = s.i + 1]
        ELSE IF ch = "{" THEN [s EXCEPT !.brace = s.brace + 1, !.i = s.i + 1]
        ELSE IF ch = "}"
             THEN IF s.brace - 1 = 0
                  THEN [s EXCEPT !.brace = 0, !.pc = "done", !.ret = Some(s.i)]
                  ELSE [s EXCEPT !.brace = s.brace - 1, !.i = s.i + 1]
        ELSE [s EXCEPT !.i = s.i + 1]

\* one iteration of `while i < n`, or the `return None` after it
LoopStep(src, s) ==
    IF s.i >= Len(src) THEN [s EXCEPT !.pc = "done", !.ret = None]
    ELSE IF s.in_line_comment THEN LineCommentStep(src, s)
    ELSE IF s.in_block_comment THEN BlockCommentStep(src, s)
    ELSE IF s.in_squote THEN SQuoteStep(src, s)
    ELSE IF s.in_dquote THEN DQuoteStep(src, s)
    ELSE NormalStep(src, s)

ScanStepFn(src, s) == IF s.pc = "seek" THEN SeekStep(src, s) ELSE LoopStep(src, s)

RECURSIVE ScanRun(_, _)
ScanRun(src, s) == IF s.pc = "done" THEN s ELSE ScanRun(src, ScanStepFn(src, s))

\* the function as its callers see it: the returned Optional[int]
_scan_braces_php(src, start) == ScanRun(src, ScanStart(src, start)).ret

\* ------------------------------------------------- extract_method_block

Uppers == <<"A", "B", "C", "D", "E", "F", "G", "H", "I", "J", "K", "L", "M",
            "N", "O", "P", "Q", "R", "S", "T", "U", "V", "W", "X", "Y", "Z">>

Lowers == <<"a", "b", "c", "d", "e", "f", "g", "h", "i", "j", "k", "l", "m",
            "n", "o", "p", "q", "r", "s", "t", "u", "v", "w", "x", "y", "z">>

Digits == {"0", "1", "2", "3", "4", "5", "6", "7", "8", "9"}

\* c.lower() of Python, on one character
Lower(c) ==
    IF \E k \in DOMAIN Uppers : Uppers[k] = c
    THEN Lowers[CHOOSE k \in DOMAIN Uppers : Uppers[k] = c]
    ELSE c

LowerSeq(s) == [k \in DOMAIN s |-> Lower(s[k])]

\* \w of the regular expression
IsWordChar(c) ==
    \/ \E k \in DOMAIN Uppers : Uppers[k] = c \/ Lowers[k] = c
    \/ c \in Digits
    \/ c = "_"

\* \s of the regular expression
IsSpace(c) == c \in {" ", "\t", "\n", "\r"}

RECURSIVE SkipSpaces(_, _)
\* the offset of the first non-space character at or after k
SkipSpaces(src, k) ==
    IF k < Len(src) /\ IsSpace(At(src, k)) THEN SkipSpaces(src, k + 1) ELSE k

KwFunction == <<"f", "u", "n", "c", "t", "i", "o", "n">>

\* a match that asks for no "(" after the name
MatchEnd_NoParen(src, p, name) ==
    LET a == p + Len(KwFunction)
        b == SkipSpaces(src, a)
        c == b + Len(name)
    IN  IF /\ ~IsWordChar(At(src, p - 1))
           /\ LowerSeq(Slice(src, p, a)) = KwFunction
           /\ b > a
           /\ LowerSeq(Slice(src, b, c)) = LowerSeq(name)
        THEN Some(SkipSpaces(src, c))
        ELSE None

\* the end offset of a match of \bfunction\s+<name>\s*\( (IGNORECASE) that
\* starts at offset p, as an Optional; name does not begin with a space
MatchEnd(src, p, name) ==
    LET a == p + Len(KwFunction)
        b == SkipSpaces(src, a)
        c == b + Len(name)
        d == SkipSpaces(src, c)
    IN  IF /\ ~IsWordChar(At(src, p - 1))
           /\ LowerSeq(Slice(src, p, a)) = KwFunction
           /\ b > a
           /\ LowerSeq(Slice(src, b, c)) = LowerSeq(name)
           /\ At(src, d) = "("
        THEN Some(d + 1)
        ELSE None

\* pat.search(src): the leftmost match as Some(<<start, end>>), or None
SearchSignature(src, name) ==
    LET starts == {p \in 0 .. Len(src) : MatchEnd(src, p, name) # None}
    IN  IF starts = {} THEN None
        ELSE LET p == Min(starts)
             IN  Some(<<p, CHOOSE e \in MatchEnd(src, p, name) : TRUE>>)

SignatureNotFound(name) ==
    [found |-> FALSE, method_name |-> name, extracted |-> None,
     start_line |-> None, end_line |-> None,
     notes |-> <<"Method signature not found">>]

\* the wrong note pasted
BracesNotMatched_SameNote(name) ==
    [found |-> FALSE, method_name |-> name, extracted |-> None,
     start_line |-> None, end_line |-> None,
     notes |-> <<"Method signature not found">>]

BracesNotMatched(name) ==
    [found |-> FALSE, method_name |-> name, extracted |-> None,
     start_line |-> None, end_line |-> None,
     notes |-> <<"Could not match braces for method body">>]

\* the closing brace left out of the slice
MethodFound_ExclusiveEnd(src, name, start_sig, end_brace) ==
    [found |-> TRUE, method_name |-> name,
     extracted |-> Some(Slice(src, start_sig, end_brace)),
     start_line |-> Some(Count(src, "\n", 0, start_sig) + 1),
     end_line |-> Some(Count(src, "\n", 0, end_brace) + 1),
     notes |-> <<>>]

MethodFound(src, name, start_sig, end_brace) ==
    [found |-> TRUE, method_name |-> name,
     extracted |-> Some(Slice(src, start_sig, end_brace + 1)),
     start_line |-> Some(Count(src, "\n", 0, start_sig) + 1),
     end_line |-> Some(Count(src, "\n", 0, end_brace) + 1),
     notes |-> <<>>]

\* src is read_text(controller_file)
extract_method_block(src, name) ==
    LET m == SearchSignature(src, name)
    IN  IF m = None THEN SignatureNotFound(name)
        ELSE LET span      == CHOOSE x \in m : TRUE
                 end_brace == _scan_braces_php(src, span[2])
             IN  IF end_brace = None THEN BracesNotMatched(name)
                 ELSE MethodFound(src, name, span[1], CHOOSE e \in end_brace : TRUE)

\* ----------------------------------------------- probe_controller_file
\* A path is the sequence of its components, each a text; a probe-trail
\* entry is the text the code formats, cut at its "/".

Api == <<"a", "p", "i">>

Portal == <<"p", "o", "r", "t", "a", "l">>

Auto == <<"a", "u", "t", "o">>

DotPhp == <<".", "p", "h", "p">>

EndsWith(s, suffix) ==
    Len(s) >= Len(suffix) /\ SubSeq(s, Len(s) - Len(suffix) + 1, Len(s)) = suffix

IsPrefix(s, t) == Len(s) <= Len(t) /\ SubSeq(t, 1, Len(s)) = s

normalize_controller_filename(c) ==
    IF EndsWith(LowerSeq(c), DotPhp) THEN c ELSE c \o DotPhp

find_php_controllers_root(app_root) ==
    app_root \o << <<"a", "p", "p", "l", "i", "c", "a", "t", "i", "o", "n">>,
                   <<"c", "o", "n", "t", "r", "o", "l", "l", "e", "r", "s">> >>

\* Path.exists()
Exists(files, dirs, p) ==
    \/ p \in dirs
    \/ \E f \in files : IsPrefix(p, f.path)

\* base.rglob(name): the files below base called name
RGlobName(files, base, name) ==
    {f \in files : IsPrefix(base, f.path) /\ Len(f.path) > Len(base)
                     /\ f.path[Len(f.path)] = name}

\* base.rglob("*.php"): the files below base whose name ends in ".php"
RGlobPhp(files, base) ==
    {f \in files : IsPrefix(base, f.path) /\ Len(f.path) > Len(base)
                     /\ EndsWith(f.path[Len(f.path)], DotPhp)}

\* class_pat.search(read_text(p)): the file names the class, letter case apart
ClassPatMatches(f, ctl) == \E cls \in f.classes : LowerSeq(cls) = LowerSeq(ctl)

\* portal tried before api
Apps_PortalFirst(choice) == IF choice = Auto THEN <<Portal, Api>> ELSE <<choice>>

Apps(choice) == IF choice = Auto THEN <<Api, Portal>> ELSE <<choice>>

candidates_for_app(root, app, ver, cf) ==
    LET base == find_php_controllers_root(root \o <<app>>)
    IN  << base \o <<ver, cf>>, base \o <<cf>> >>

\* the versioned candidate of every scope, then the version-less ones
DirectCandidates_LayoutFirst(root, apps, ver, cf) ==
    [k \in 1 .. Len(apps) |->
        [app |-> apps[k], c |-> candidates_for_app(root, apps[k], ver, cf)[1]]]
    \o [k \in 1 .. Len(apps) |->
        [app |-> apps[k], c |-> candidates_for_app(root, apps[k], ver, cf)[2]]]

RECURSIVE DirectCandidates(_, _, _, _)
\* the candidates in the order the two nested loops visit them
DirectCandidates(root, apps, ver, cf) ==
    IF apps = <<>> THEN <<>>
    ELSE LET cs == candidates_for_app(root, Head(apps), ver, cf)
         IN  << [app |-> Head(apps), c |-> cs[1]], [app |-> Head(apps), c |-> cs[2]] >>
               \o DirectCandidates(root, Tail(apps), ver, cf)

\* only the versioned candidate of each scope is tested
DirectStage_VersionedOnly(files, dirs, cands) ==
    LET hits == {k \in 1 .. Len(cands) : k % 2 = 1 /\ Exists(files, dirs, cands[k].c)}
    IN  IF hits = {}
        THEN [hit |-> FALSE, tried |-> [k \in 1 .. Len(cands) |-> cands[k].c]]
        ELSE [hit |-> TRUE, tried |-> [j \in 1 .. Min(hits) |-> cands[j].c],
              path |-> cands[Min(hits)].c, app |-> cands[Min(hits)].app]

\* 1) Direct candidates: each is appended to tried, then tested
DirectStage(files, dirs, cands) ==
    LET hits == {k \in 1 .. Len(cands) : Exists(files, dirs, cands[k].c)}
    IN  IF hits = {}
        THEN [hit |-> FALSE, tried |-> [k \in 1 .. Len(cands) |-> cands[k].c]]
        ELSE [hit |-> TRUE, tried |-> [j \in 1 .. Min(hits) |-> cands[j].c],
              path |-> cands[Min(hits)].c, app |-> cands[Min(hits)].app]

\* f"{base}/**/{controller_file}"
FilenameEntry(base, cf) == base \o << <<"*", "*">>, cf >>

\* f"{base}/**/*.php (grep class {controller})"
GrepEntry(base, ctl) ==
    base \o << <<"*", "*">>,
               <<"*", ".", "p", "h", "p", " ", "(", "g", "r", "e", "p", " ", "c", "l", "a", "s", "s", " ">> \o ctl \o <<")">> >>

\* hits of stage 2 in one scope
FilenameHits(files, dirs, base, cf) ==
    IF Exists(files, dirs, base) THEN {f.path : f \in RGlobName(files, base, cf)} ELSE {}

\* an unreadable file taken for a match
GrepHits_Unreadable(files, dirs, base, ctl) ==
    IF Exists(files, dirs, base)
    THEN {f.path : f \in {g \in RGlobPhp(files, base) :
                            ~g.readable \/ ClassPatMatches(g, ctl)}}
    ELSE {}

\* hits of stage 3 in one scope: a file that cannot be read is passed over
GrepHits(files, dirs, base, ctl) ==
    IF Exists(files, dirs, base)
    THEN {f.path : f \in {g \in RGlobPhp(files, base) :
                            g.readable /\ ClassPatMatches(g, ctl)}}
    ELSE {}

\* the entry appended only after a miss
SearchStage_AppendAfterTest(apps, entries, hits) ==
    LET ks == {k \in 1 .. Len(apps) : hits[k] # {}}
    IN  IF ks = {} THEN {[hit |-> FALSE, tried |-> entries]}
        ELSE {[hit |-> TRUE, tried |-> SubSeq(entries, 1, Min(ks) - 1),
               path |-> h, app |-> apps[Min(ks)]] : h \in hits[Min(ks)]}

\* stages 2 and 3: scope by scope, the entry is appended, then the scope is
\* searched; the first hit in traversal order is returned, and that order is
\* the directory listing's, so any hit of the scope may be the one
SearchStage(apps, entries, hits) ==
    LET ks == {k \in 1 .. Len(apps) : hits[k] # {}}
    IN  IF ks = {} THEN {[hit |-> FALSE, tried |-> entries]}
        ELSE {[hit |-> TRUE, tried |-> SubSeq(entries, 1, Min(ks)),
               path |-> h, app |-> apps[Min(ks)]] : h \in hits[Min(ks)]}

\* (FileProbeResult(found, path, tried), app)
ProbeReturn(found, path, tried, app) ==
    [probe |-> [found |-> found, path |-> path, tried |-> tried], app |-> app]

\* the set of the pairs the call may return
probe_controller_file(files, dirs, root, ctl, ver, choice) ==
    LET cf    == normalize_controller_filename(ctl)
        apps  == Apps(choice)
        bases == [k \in 1 .. Len(apps) |-> find_php_controllers_root(root \o <<apps[k]>>)]
        s1    == DirectStage(files, dirs, DirectCandidates(root, apps, ver, cf))
        s2    == SearchStage(apps,
                     [k \in 1 .. Len(apps) |-> FilenameEntry(bases[k], cf)],
                     [k \in 1 .. Len(apps) |-> FilenameHits(files, dirs, bases[k], cf)])
        s3    == SearchStage(apps,
                     [k \in 1 .. Len(apps) |-> GrepEntry(bases[k], ctl)],
                     [k \in 1 .. Len(apps) |-> GrepHits(files, dirs, bases[k], ctl)])
    IN  IF s1.hit THEN {ProbeReturn(TRUE, Some(s1.path), s1.tried, Some(s1.app))}
        ELSE UNION {
               IF r2.hit
               THEN {ProbeReturn(TRUE, Some(r2.path), s1.tried \o r2.tried, Some(r2.app))}
               ELSE {IF r3.hit
                     THEN ProbeReturn(TRUE, Some(r3.path),
                                      s1.tried \o r2.tried \o r3.tried, Some(r3.app))
                     ELSE ProbeReturn(FALSE, None,
                                      s1.tried \o r2.tried \o r3.tried, None)
                     : r3 \in s3}
               : r2 \in s2}

resolve_controller(files, dirs, root, ctl, ver, choice) ==
    {[controller_file |-> o.probe.path, app_resolved |-> o.app, probe |-> o.probe]
        : o \in probe_controller_file(files, dirs, root, ctl, ver, choice)}

\* ------------------------------------------------------- utils.norm_*

\* c.upper() of Python, on one character
Upper(c) ==
    IF \E k \in DOMAIN Lowers : Lowers[k] = c
    THEN Uppers[CHOOSE k \in DOMAIN Lowers : Lowers[k] = c]
    ELSE c

UpperSeq(s) == [k \in DOMAIN s |-> Upper(s[k])]

RECURSIVE LStrip(_, _)
\* s.lstrip(chars)
LStrip(s, chars) ==
    IF s # <<>> /\ Head(s) \in chars THEN LStrip(Tail(s), chars) ELSE s

RECURSIVE RStrip(_, _)
\* s.rstrip(chars)
RStrip(s, chars) ==
    IF s # <<>> /\ s[Len(s)] \in chars THEN RStrip(SubSeq(s, 1, Len(s) - 1), chars) ELSE s

Whitespace == {" ", "\t", "\n", "\r"}

\* s.strip()
Strip(s) == RStrip(LStrip(s, Whitespace), Whitespace)

VALID_HTTP == { <<"G", "E", "T">>,
               <<"P", "O", "S", "T">>,
               <<"P", "U", "T">>,
               <<"D", "E", "L", "E", "T", "E">> }

\* the normalised verb as Some(m); None stands for the ValueError raised
norm_http(method) ==
    LET m == UpperSeq(Strip(method))
    IN  IF m \notin VALID_HTTP THEN None ELSE Some(m)

\* the slashes taken off the front only
norm_endpoint_path_LeadingOnly(p) == LStrip(Strip(p), {"/"})

norm_endpoint_path(p) == RStrip(LStrip(Strip(p), {"/"}), {"/"})

\* letter case kept as given
norm_version_KeepCase(v) ==
    IF v = None THEN None
    ELSE LET s == Strip(CHOOSE x \in v : TRUE)
         IN  IF s = <<>> THEN None
             ELSE IF Head(s) # "v" THEN Some(<<"v">> \o s)
             ELSE Some(s)

\* v is an Optional[str], and so is the result
norm_version(v) ==
    IF v = None THEN None
    ELSE LET s == LowerSeq(Strip(CHOOSE x \in v : TRUE))
         IN  IF s = <<>> THEN None
             ELSE IF Head(s) # "v" THEN Some(<<"v">> \o s)
             ELSE Some(s)

\* ------------------------------------------------------------ Inventory
\* A returned row is a reference to an element of self.rows: its index.

\* the indexes k of rs, in order, for which keep[k] holds
IndexesWhere(rs, keep) ==
    SelectSeq([k \in 1 .. Len(rs) |-> k], LAMBDA k : keep[k])

\* s.split("/")[-1]
LastSegment(s) ==
    LET slashes == {k \in 1 .. Len(s) : s[k] = "/"}
    IN  IF slashes = {} THEN s
        ELSE SubSeq(s, 1 + (CHOOSE k \in slashes : \A j \in slashes : j <= k), Len(s))

\* s in t, of Python
Contains(t, s) == \E k \in 0 .. (Len(t) - Len(s)) : SubSeq(t, k + 1, k + Len(s)) = s

\* the loop left at the first row kept
ExactMatches_FirstOnly(rs, hm, ep, v) ==
    LET all == IndexesWhere(rs, [k \in 1 .. Len(rs) |->
                   /\ rs[k].http_method = hm
                   /\ rs[k].endpoint_path = ep
                   /\ ~(v # None /\ Some(rs[k].version) # v)])
    IN  IF all = <<>> THEN <<>> ELSE <<Head(all)>>

\* the first loop of match
ExactMatches(rs, hm, ep, v) ==
    IndexesWhere(rs, [k \in 1 .. Len(rs) |->
        /\ rs[k].http_method = hm
        /\ rs[k].endpoint_path = ep
        /\ ~(v # None /\ Some(rs[k].version) # v)])

\* the second loop without its test of the last segments
Suggestions_NoLastSegment(rs, hm, ep) ==
    IndexesWhere(rs, [k \in 1 .. Len(rs) |->
        /\ rs[k].http_method = hm
        /\ ep # <<>> /\ (Contains(rs[k].endpoint_path, ep) \/ Contains(ep, rs[k].endpoint_path))])

\* the second loop without the continue after its first append
Suggestions_NoContinue(rs, hm, ep) ==
    LET ep_last == IF ep # <<>> THEN LastSegment(ep) ELSE <<>>
    IN  Flatten([k \in 1 .. Len(rs) |->
            IF rs[k].http_method # hm THEN <<>>
            ELSE (IF ep # <<>> /\ (Contains(rs[k].endpoint_path, ep) \/ Contains(ep, rs[k].endpoint_path))
                  THEN <<k>> ELSE <<>>)
                 \o (IF ep_last # <<>> /\ ep_last = LastSegment(rs[k].endpoint_path)
                     THEN <<k>> ELSE <<>>)])

\* the second loop of match
Suggestions(rs, hm, ep) ==
    LET ep_last == IF ep # <<>> THEN LastSegment(ep) ELSE <<>>
    IN  IndexesWhere(rs, [k \in 1 .. Len(rs) |->
            /\ rs[k].http_method = hm
            /\ \/ ep # <<>> /\ (Contains(rs[k].endpoint_path, ep) \/ Contains(ep, rs[k].endpoint_path))
               \/ ep_last # <<>> /\ ep_last = LastSegment(rs[k].endpoint_path)])

\* Inventory.match: version is an Optional[str]
match(rs, http_method, endpoint_path, ver) ==
    LET hm == norm_http(http_method)
        ep == norm_endpoint_path(endpoint_path)
        v  == IF ver # None /\ ver # Some(<<>>) THEN norm_version(ver) ELSE None
    IN  IF hm = None THEN [kind |-> "raise", error |-> "ValueError"]
        ELSE LET m == CHOOSE x \in hm : TRUE
             IN  [kind |-> "return",
                  exact |-> ExactMatches(rs, m, ep, v),
                  suggestions |-> Suggestions(rs, m, ep)]

\* the characters of versions in code-point order, as sorted() compares them
CodePoints == <<" ", ".", "/", "0", "1", "2", "3", "4", "5", "6", "7", "8", "9", "_">> \o Lowers

Ord(c) == CHOOSE k \in DOMAIN CodePoints : CodePoints[k] = c

RECURSIVE StrLess(_, _)
\* s < t of Python, on str
StrLess(s, t) ==
    IF t = <<>> THEN FALSE
    ELSE IF s = <<>> THEN TRUE
    ELSE IF Head(s) # Head(t) THEN Ord(Head(s)) < Ord(Head(t))
    ELSE StrLess(Tail(s), Tail(t))

RECURSIVE Sorted(_)
\* sorted(S) of Python, on a set of str
Sorted(S) ==
    IF S = {} THEN <<>>
    ELSE LET least == CHOOSE x \in S : \A y \in S \ {x} : StrLess(x, y)
         IN  <<least>> \o Sorted(S \ {least})

\* the set comprehension of infer_version
VersionsOf(rs, hm, ep) ==
    {rs[k].version : k \in {j \in 1 .. Len(rs) : rs[j].http_method = hm /\ rs[j].endpoint_path = ep}}

\* the versions in the order the rows hold them, repeats left out
InferVersion_Unsorted(rs, hm, ep) ==
    LET ks == IndexesWhere(rs, [k \in 1 .. Len(rs) |->
                  /\ rs[k].http_method = hm /\ rs[k].endpoint_path = ep
                  /\ \A j \in 1 .. (k - 1) :
                        ~(rs[j].http_method = hm /\ rs[j].endpoint_path = ep /\ rs[j].version = rs[k].version)])
    IN  [j \in 1 .. Len(ks) |-> rs[ks[j]].version]

\* sorted({r.version for r in self.rows if ...})
InferVersion(rs, hm, ep) == Sorted(VersionsOf(rs, hm, ep))

\* Inventory.infer_version
infer_version(rs, http_method, endpoint_path) ==
    LET hm == norm_http(http_method)
        ep == norm_endpoint_path(endpoint_path)
    IN  IF hm = None THEN [kind |-> "raise", error |-> "ValueError"]
        ELSE [kind |-> "return", versions |-> InferVersion(rs, CHOOSE x \in hm : TRUE, ep)]

\* ------------------------------------------------------- Inventory.load
\* A cell of a sheet is None, a str or an int; an int is kept as its decimal
\* text, which is what str() makes of it.

NoValue == [t |-> "none", v |-> <<>>]

\* bool(c) of Python
Truthy(c) ==
    CASE c.t = "none" -> FALSE
      [] c.t = "str"  -> c.v # <<>>
      [] c.t = "int"  -> c.v # <<"0">>

\* str(c) of Python
Str(c) == IF c.t = "none" THEN <<"N", "o", "n", "e">> ELSE c.v

\* any(row)
AnyCell(row) == \E k \in DOMAIN row : Truthy(row[k])

\* the keys of headers in the order they are first inserted
HeaderKeys(header_row) ==
    LET key(k) == Strip(Str(header_row[k]))
        ks == SelectSeq([k \in DOMAIN header_row |-> k],
                        LAMBDA k : /\ header_row[k].t # "none"
                                   /\ key(k) # <<>>
                                   /\ \A j \in 1 .. (k - 1) :
                                         header_row[j].t = "none" \/ key(j) # key(k))
    IN  [j \in DOMAIN ks |-> key(ks[j])]

\* headers.get(col_name): the last column holding the name, 0 for None
HeaderIndex(header_row, col_name) ==
    LET at == {k \in DOMAIN header_row :
                  header_row[k].t # "none" /\ Strip(Str(header_row[k])) = col_name}
    IN  IF at = {} THEN 0 ELSE CHOOSE k \in at : \A j \in at : j <= k

\* get(row_vals, col_name)
get(header_row, row_vals, col_name) ==
    LET idx == HeaderIndex(header_row, col_name)
    IN  IF idx = 0 THEN NoValue
        ELSE IF row_vals[idx].t = "str"
             THEN [row_vals[idx] EXCEPT !.v = Strip(row_vals[idx].v)]
             ELSE row_vals[idx]

required_full == << <<"V", "e", "r", "s", "i", "o", "n">>, <<"C", "o", "n", "t", "r", "o", "l", "l", "e", "r">>, <<"H", "t", "t", "p", "M", "e", "t", "h", "o", "d">>, <<"M", "e", "t", "h", "o", "d">>, <<"M", "e", "t", "h", "o", "d", "B", "a", "s", "e">>, <<"E", "n", "d", "p", "o", "i", "n", "t", "P", "a", "t", "h">> >>

EpWithVersion == <<"E", "n", "d", "p", "o", "i", "n", "t", "P", "a", "t", "h", " ", "w", "i", "t", "h", " ", "v", "e", "r", "s", "i", "o", "n">>

required_min_1 == << <<"M", "é", "t", "o", "d", "o">>, <<"P", "a", "t", "h">> >>

required_min_2 == << <<"M", "e", "t", "o", "d", "o">>, <<"P", "a", "t", "h">> >>

\* all(c in headers for c in cols)
AllIn(header_row, cols) == \A k \in DOMAIN cols : HeaderIndex(header_row, cols[k]) # 0

has_full(header_row) == AllIn(header_row, required_full)

has_min(header_row) == AllIn(header_row, required_min_1) \/ AllIn(header_row, required_min_2)

RECURSIVE Split(_)
\* s.split("/")
Split(s) ==
    LET slashes == {k \in 1 .. Len(s) : s[k] = "/"}
    IN  IF slashes = {} THEN <<s>>
        ELSE LET k == Min(slashes)
             IN  <<SubSeq(s, 1, k - 1)>> \o Split(SubSeq(s, k + 1, Len(s)))

RECURSIVE Join(_)
\* "/".join(parts)
Join(parts) ==
    IF parts = <<>> THEN <<>>
    ELSE IF Len(parts) = 1 THEN parts[1]
    ELSE parts[1] \o <<"/">> \o Join(Tail(parts))

\* Method and MethodBase left out of the test for required fields
FullRow_KeepsIncomplete(header_row, row) ==
    LET ver         == get(header_row, row, required_full[1])
        ctl         == get(header_row, row, required_full[2])
        http_method == get(header_row, row, required_full[3])
        method      == get(header_row, row, required_full[4])
        method_base == get(header_row, row, required_full[5])
        ep_cell     == get(header_row, row, required_full[6])
    IN  IF ~AnyCell(row) THEN [kind |-> "skip"]
        ELSE IF ~(Truthy(ver) /\ Truthy(ctl) /\ Truthy(http_method) /\ Truthy(ep_cell))
        THEN [kind |-> "skip"]
        ELSE IF norm_http(Str(http_method)) = None
        THEN [kind |-> "raise", error |-> "ValueError", value |-> Str(http_method)]
        ELSE [kind |-> "row",
              row |-> [version |-> CHOOSE v \in norm_version(Some(Str(ver))) : TRUE,
                       controller |-> Strip(Str(ctl)),
                       http_method |-> CHOOSE m \in norm_http(Str(http_method)) : TRUE,
                       method |-> Strip(Str(method)),
                       method_base |-> Strip(Str(method_base)),
                       endpoint_path |-> norm_endpoint_path(Str(ep_cell)),
                       endpoint_path_with_version |-> None]]

\* what one data row of the Full schema comes to: skipped, kept as an
\* InventoryRow, or the ValueError of norm_http
FullRow(header_row, row) ==
    LET ver         == get(header_row, row, required_full[1])
        ctl         == get(header_row, row, required_full[2])
        http_method == get(header_row, row, required_full[3])
        method      == get(header_row, row, required_full[4])
        method_base == get(header_row, row, required_full[5])
        ep_cell     == get(header_row, row, required_full[6])
        ep_with_ver == get(header_row, row, EpWithVersion)
    IN  IF ~AnyCell(row) THEN [kind |-> "skip"]
        ELSE IF ~(Truthy(ver) /\ Truthy(ctl) /\ Truthy(http_method) /\ Truthy(method)
                    /\ Truthy(method_base) /\ Truthy(ep_cell))
        THEN [kind |-> "skip"]
        ELSE IF norm_http(Str(http_method)) = None
        THEN [kind |-> "raise", error |-> "ValueError", value |-> Str(http_method)]
        ELSE [kind |-> "row",
              row |-> [version |-> CHOOSE v \in norm_version(Some(Str(ver))) : TRUE,
                       controller |-> Strip(Str(ctl)),
                       http_method |-> CHOOSE m \in norm_http(Str(http_method)) : TRUE,
                       method |-> Strip(Str(method)),
                       method_base |-> Strip(Str(method_base)),
                       endpoint_path |-> norm_endpoint_path(Str(ep_cell)),
                       endpoint_path_with_version |->
                           IF Truthy(ep_with_ver) THEN Some(norm_endpoint_path(Str(ep_with_ver)))
                           ELSE None]]

\* ("v1", "v2")
PathVersions == { <<"v", "1">>, <<"v", "2">> }

\* inferred_version = "v1"
DefaultVersion == <<"v", "1">>

\* suffix = {"GET": "get", ...}[hm]
Suffix(hm) == LowerSeq(hm)

\* the version read off the first segment only when it is written in lower case
InferredVersion_CaseSensitive(parts) ==
    IF parts[1] \in PathVersions THEN Some(parts[1]) ELSE None

\* the version the first segment of the path stands for, if it stands for one
InferredVersion(parts) ==
    IF LowerSeq(parts[1]) \in PathVersions THEN norm_version(Some(parts[1])) ELSE None

\* what one data row of the Minimal schema comes to
MinRow(header_row, row, metodo_col) ==
    LET hm_cell   == get(header_row, row, metodo_col)
        path      == get(header_row, row, required_min_1[2])
        full_path == norm_endpoint_path(Str(path))
        parts     == Split(full_path)
        inferred  == InferredVersion(parts)
        rest      == norm_endpoint_path(IF inferred # None THEN Join(Tail(parts)) ELSE full_path)
        rest_parts == Split(rest)
    IN  IF ~AnyCell(row) THEN [kind |-> "skip"]
        ELSE IF ~Truthy(hm_cell) \/ ~Truthy(path) THEN [kind |-> "skip"]
        ELSE IF norm_http(Str(hm_cell)) = None
        THEN [kind |-> "raise", error |-> "ValueError", value |-> Str(hm_cell)]
        ELSE IF Len(rest_parts) < 2 THEN [kind |-> "skip"]
        ELSE LET hm == CHOOSE m \in norm_http(Str(hm_cell)) : TRUE
             IN  [kind |-> "row",
                  row |-> [version |-> IF inferred # None THEN CHOOSE v \in inferred : TRUE
                                       ELSE DefaultVersion,
                           controller |-> rest_parts[1],
                           http_method |-> hm,
                           method |-> rest_parts[2] \o <<"_">> \o Suffix(hm),
                           method_base |-> rest_parts[2],
                           endpoint_path |-> rest,
                           endpoint_path_with_version |-> Some(full_path)]]

\* a row whose verb is not valid is skipped like an incomplete one
LoadRows_SkipsInvalid(outcomes) ==
    LET kept == SelectSeq(outcomes, LAMBDA o : o.kind = "row")
    IN  [kind |-> "return", rows |-> [k \in DOMAIN kept |-> kept[k].row]]

\* the loop over the data rows: the rows kept, in order, unless a row raises
LoadRows(outcomes) ==
    LET raising == {k \in DOMAIN outcomes : outcomes[k].kind = "raise"}
        kept    == SelectSeq(outcomes, LAMBDA o : o.kind = "row")
    IN  IF raising # {}
        THEN [kind |-> "raise", error |-> "ValueError", what |-> "Invalid --http-method",
              names |-> <<outcomes[Min(raising)].value>>]
        ELSE [kind |-> "return", rows |-> [k \in DOMAIN kept |-> kept[k].row]]

\* the sheets of the workbook named as asked, in workbook order
SheetsNamed(wb, name) == SelectSeq(wb, LAMBDA sh : sh.name = name)

\* wb.sheetnames
SheetNames(wb) == [k \in DOMAIN wb |-> wb[k].name]

\* any header set but the complete Full one is taken
HeaderFails_FullOnly(header_row) == ~has_full(header_row)

\* if not has_full and not has_min
HeaderFails(header_row) == ~has_full(header_row) /\ ~has_min(header_row)

\* Inventory.load(xlsx_path, sheet_name), wb being the workbook at xlsx_path
load(wb, name) ==
    IF SheetsNamed(wb, name) = <<>>
    THEN [kind |-> "raise", error |-> "ValueError", what |-> "Sheet not found",
          names |-> SheetNames(wb)]
    ELSE LET ws == SheetsNamed(wb, name)[1]
         IN  IF HeaderFails(ws.header)
             THEN [kind |-> "raise", error |-> "ValueError", what |-> "Unsupported inventory format",
                   names |-> HeaderKeys(ws.header) \o required_full \o required_min_1]
             ELSE IF has_full(ws.header)
             THEN LoadRows([k \in DOMAIN ws.data |-> FullRow(ws.header, ws.data[k])])
             ELSE LET metodo_col == IF HeaderIndex(ws.header, required_min_1[1]) # 0
                                    THEN required_min_1[1] ELSE required_min_2[1]
                  IN  LoadRows([k \in DOMAIN ws.data |-> MinRow(ws.header, ws.data[k], metodo_col)])

\* ------------------------------------------------------------ cli.main
\* Paths below the output folder are sequences of segments, relative to it.

\* _env: the value of an environment variable, None when it is not set or blank
_env(value) ==
    IF value = None \/ value = Some(<<>>) THEN None
    ELSE LET v == Strip(CHOOSE x \in value : TRUE)
         IN  IF v = <<>> THEN None ELSE Some(v)

\* the default of --repo-root and --inventory-xlsx is the environment's value
parse_args(flags, env) ==
    [flags EXCEPT !.repo_root = IF @ # None THEN @ ELSE _env(env.PHP2NODE_REPO_ROOT),
                  !.inventory_xlsx = IF @ # None THEN @ ELSE _env(env.PHP2NODE_INVENTORY_XLSX)]

\* _require_arg: the value is None or blank
Missing(value) == \A v \in value : Strip(v) = <<>>

RECURSIVE Walk(_, _)
\* where the segments segs lead from the directory dir: "." and empty
\* segments lead nowhere, ".." leads to the parent, which the file system
\* follows when the path is opened (above the output folder it is kept)
Walk(dir, segs) ==
    IF segs = <<>> THEN dir
    ELSE IF Head(segs) \in { <<>>, <<".">> } THEN Walk(dir, Tail(segs))
    ELSE IF Head(segs) = <<".", ".">>
    THEN Walk(IF dir = <<>> \/ dir[Len(dir)] = <<".", ".">>
              THEN Append(dir, Head(segs))
              ELSE SubSeq(dir, 1, Len(dir) - 1), Tail(segs))
    ELSE Walk(Append(dir, Head(segs)), Tail(segs))

\* dir / name, as the file system resolves it
Below(dir, name) == Walk(dir, Split(name))

Unresolved == <<"u", "n", "r", "e", "s", "o", "l", "v", "e", "d">>

ResolvedDir == <<"r", "e", "s", "o", "l", "v", "e", "d">>

UnresolvedMd == <<"u", "n", "r", "e", "s", "o", "l", "v", "e", "d", ".", "m", "d">>

\* unresolved_dir = out_root / "unresolved" / name ; unresolved_dir / "unresolved.md"
UnresolvedReport(name) == Below(Below(<<Unresolved>>, name), UnresolvedMd)

RECURSIVE Squeeze(_)
\* re.sub(r"_+", "_", s)
Squeeze(s) ==
    IF Len(s) < 2 THEN s
    ELSE IF s[1] = "_" /\ s[2] = "_" THEN Squeeze(Tail(s))
    ELSE <<s[1]>> \o Squeeze(Tail(s))

\* utils.safe_slug
safe_slug(s) ==
    LET low  == LowerSeq(Strip(s))
        subs == [k \in DOMAIN low |->
                    IF low[k] \in Digits \/ (\E j \in DOMAIN Lowers : Lowers[j] = low[k])
                    THEN low[k] ELSE "_"]
        slug == RStrip(LStrip(Squeeze(subs), {"_"}), {"_"})
    IN  IF slug = <<>> THEN <<"i", "t", "e", "m">> ELSE slug

\* utils.endpoint_key: the slug and eight hexadecimal digits of a SHA-1,
\* which are digits whatever the text hashed
endpoint_key(ver, http, ep) ==
    safe_slug(ver \o <<"_">> \o http \o <<"_">> \o ep) \o <<"_">> \o <<"0", "0", "0", "0", "0", "0", "0", "0">>

\* the files of stages 5 to 7, below base_dir, in the order they are written
ResolvedOutputs(base_dir, name_base) ==
    << Append(Below(base_dir, <<"p", "h", "p">>), <<"c", "o", "n", "t", "r", "o", "l", "l", "e", "r", "_", "p", "a", "t", "h", ".", "t", "x", "t">>),
       Append(Below(base_dir, <<"p", "h", "p">>), <<"m", "e", "t", "h", "o", "d", ".", "p", "h", "p">>),
       Append(Below(base_dir, <<"p", "h", "p">>), <<"a", "n", "a", "l", "y", "s", "i", "s", ".", "j", "s", "o", "n">>),
       Append(Below(Below(base_dir, <<"n", "o", "d", "e">>), <<"r", "o", "u", "t", "e", "s">>), name_base \o <<".", "r", "o", "u", "t", "e", "s", ".", "t", "s">>),
       Append(Below(Below(base_dir, <<"n", "o", "d", "e">>), <<"c", "o", "n", "t", "r", "o", "l", "l", "e", "r", "s">>), name_base \o <<".", "c", "o", "n", "t", "r", "o", "l", "l", "e", "r", ".", "t", "s">>),
       Append(Below(Below(base_dir, <<"n", "o", "d", "e">>), <<"s", "e", "r", "v", "i", "c", "e", "s">>), name_base \o <<".", "s", "e", "r", "v", "i", "c", "e", ".", "t", "s">>),
       Append(Below(Below(base_dir, <<"n", "o", "d", "e">>), <<"t", "y", "p", "e", "s">>), name_base \o <<".", "t", "y", "p", "e", "s", ".", "t", "s">>),
       Append(base_dir, <<"c", "h", "a", "n", "g", "e", "s", ".", "m", "d">>),
       Append(base_dir, <<"r", "e", "p", "o", "r", "t", ".", "m", "d">>) >>

\* main before its first statement, the output folder holding the files tree
MainStart(exists, tree) ==
    [pc |-> "parse", stages |-> <<>>, calls |-> <<>>,
     http_method |-> <<>>, endpoint_path |-> <<>>, version |-> None,
     row |-> None, failed |-> None, written |-> <<>>,
     out_exists |-> exists, tree |-> tree, exit |-> None]

\* return 2 after write_report(unresolved_dir / "unresolved.md", ...)
Unresolve(r, title, dir_name) ==
    [r EXCEPT !.pc = "done", !.failed = Some(title),
              !.written = Append(@, UnresolvedReport(dir_name)),
              !.tree = @ \cup {UnresolvedReport(dir_name)},
              !.exit = Some([by |-> "return", code |-> 2])]

\* an exception no one catches ends the interpreter with status 1
Crash(r, error) == [r EXCEPT !.pc = "done", !.exit = Some([by |-> error, code |-> 1])]

\* LOG.info("Stage ...") and the call the stage makes
Enter(r, stage, callee) ==
    [r EXCEPT !.stages = Append(@, stage), !.calls = Append(@, callee)]

\* --------------------------------------- lexical structure (reference)
\* What the text means, told by tokens rather than by flags: from a position
\* in code, a comment or string token is skipped whole.

RECURSIVE SkipLine(_, _)
\* the offset just after the first newline at or after k (Len(src) if none)
SkipLine(src, k) ==
    IF k >= Len(src) THEN Len(src)
    ELSE IF At(src, k) = "\n" THEN k + 1 ELSE SkipLine(src, k + 1)

RECURSIVE SkipBlock(_, _)
\* the offset just after the first "*/" at or after k (Len(src) if none)
SkipBlock(src, k) ==
    IF k >= Len(src) THEN Len(src)
    ELSE IF At(src, k) = "*" /\ At(src, k + 1) = "/" THEN k + 2
    ELSE SkipBlock(src, k + 1)

RECURSIVE SkipString(_, _, _)
\* the offset just after the quote q closing a string whose content starts at
\* k, a backslash taking the next character with it (Len(src) if unclosed)
SkipString(src, k, q) ==
    IF k >= Len(src) THEN Len(src)
    ELSE IF At(src, k) = "\\" THEN SkipString(src, k + 2, q)
    ELSE IF At(src, k) = q THEN k + 1
    ELSE SkipString(src, k + 1, q)

RECURSIVE CodeOffsets(_, _)
\* the offsets at or after k that hold code, k itself being in code
CodeOffsets(src, k) ==
    IF k >= Len(src) THEN {}
    ELSE IF At(src, k) = "/" /\ At(src, k + 1) = "/" THEN CodeOffsets(src, SkipLine(src, k + 2))
    ELSE IF At(src, k) = "/" /\ At(src, k + 1) = "*" THEN CodeOffsets(src, SkipBlock(src, k + 2))
    ELSE IF At(src, k) = "#" THEN CodeOffsets(src, SkipLine(src, k + 1))
    ELSE IF At(src, k) \in {"'", "\""} THEN CodeOffsets(src, SkipString(src, k + 1, At(src, k)))
    ELSE {k} \cup CodeOffsets(src, k + 1)

\* the offsets of the "{" at or after start
OpenOffsets(src, start) == {k \in start .. (Len(src) - 1) : At(src, k) = "{"}

\* the "{" the scan starts from, as an Optional
FirstOpen(src, start) ==
    IF OpenOffsets(src, start) = {} THEN None ELSE Some(Min(OpenOffsets(src, start)))

\* nesting depth after offset r, counted over the code offsets: "{" minus "}"
DepthAfter(src, code, r) ==
    Cardinality({k \in code : k <= r /\ At(src, k) = "{"})
      - Cardinality({k \in code : k <= r /\ At(src, k) = "}"})

\* the code "}" that close the block opened at o
Closers(src, o) ==
    LET code == CodeOffsets(src, o)
    IN  {r \in code : At(src, r) = "}" /\ DepthAfter(src, code, r) = 0}

\* the "}" matching the first "{" at or after start, as an Optional
TrueClose(src, start) ==
    IF FirstOpen(src, start) = None THEN None
    ELSE LET closers == Closers(src, Min(OpenOffsets(src, start)))
         IN  IF closers = {} THEN None ELSE Some(Min(closers))

\* ------------------------------------------------ scanning, step by step

\* the fragments scanned texts are built from
Pieces ==
    { <<"{">>, <<"}">>, <<"a">>, <<"\n">>, <<"'">>, <<"\"">>, <<"\\">>,
      <<"/", "/">>, <<"/", "*">>, <<"*", "/">>, <<"#">>, <<"/">>,
      <<"'", "}", "'">>, <<"\"", "{", "\"">>,
      <<"/", "/", "}", "\n">>, <<"/", "*", "}", "*", "/">>, <<"#", "{", "\n">>,
      <<"'", "\\", "'", "}", "'">>, <<"\"", "\\", "\\", "\"">> }

MaxPieces == 3

ScanTexts == {Flatten(ps) : ps \in SeqsUpTo(Pieces, MaxPieces)}

StartOffsets == {0, 1}

\* no workbook given to Inventory.load
LoaderIdle ==
    /\ workbook = <<>>
    /\ sheet_name = ""
    /\ loaded = None

\* main not started
NoArgs ==
    [repo_root |-> None, inventory_xlsx |-> None, out |-> <<>>, clean_out |-> FALSE,
     http_method |-> <<>>, endpoint_path |-> <<>>, version |-> None, app |-> <<>>]

\* no variable named PHP2NODE_REPO_ROOT or PHP2NODE_INVENTORY_XLSX
NoEnviron == [PHP2NODE_REPO_ROOT |-> None, PHP2NODE_INVENTORY_XLSX |-> None]

MainIdle ==
    /\ argv = NoArgs
    /\ environ = NoEnviron
    /\ args = NoArgs
    /\ run = [pc |-> "idle"]

\* the inventory before it is loaded
InventoryIdle ==
    /\ rows = <<>>
    /\ query = None
    /\ answer = None

\* the resolver before any call
ResolverIdle ==
    /\ fs_files = {}
    /\ fs_dirs = {}
    /\ controller = <<>>
    /\ version = <<>>
    /\ app_choice = <<>>
    /\ resolved = None

InitScan ==
    /\ ResolverIdle
    /\ InventoryIdle
    /\ LoaderIdle
    /\ MainIdle
    /\ reext = None
    /\ source \in ScanTexts
    /\ start_idx \in {k \in StartOffsets : k <= Len(source)}
    /\ sc = ScanStart(source, start_idx)
    /\ file = <<>>
    /\ method_name = <<>>
    /\ ext = None

ScanFrame ==
    UNCHANGED <<source, start_idx, file, method_name, ext, reext, resolver_vars, inventory_vars,
                loader_vars, main_vars>>

Seek ==
    /\ sc.pc = "seek"
    /\ sc' = ScanStepFn(source, sc)
    /\ ScanFrame

InLineComment ==
    /\ sc.pc = "loop" /\ sc.i < Len(source) /\ sc.in_line_comment
    /\ sc' = ScanStepFn(source, sc)
    /\ ScanFrame

InBlockComment ==
    /\ sc.pc = "loop" /\ sc.i < Len(source)
    /\ ~sc.in_line_comment /\ sc.in_block_comment
    /\ sc' = ScanStepFn(source, sc)
    /\ ScanFrame

InSQuote ==
    /\ sc.pc = "loop" /\ sc.i < Len(source)
    /\ ~sc.in_line_comment /\ ~sc.in_block_comment /\ sc.in_squote
    /\ sc' = ScanStepFn(source, sc)
    /\ ScanFrame

InDQuote ==
    /\ sc.pc = "loop" /\ sc.i < Len(source)
    /\ ~sc.in_line_comment /\ ~sc.in_block_comment /\ ~sc.in_squote /\ sc.in_dquote
    /\ sc' = ScanStepFn(source, sc)
    /\ ScanFrame

InCode ==
    /\ sc.pc = "loop" /\ sc.i < Len(source)
    /\ ~sc.in_line_comment /\ ~sc.in_block_comment /\ ~sc.in_squote /\ ~sc.in_dquote
    /\ sc' = ScanStepFn(source, sc)
    /\ ScanFrame

Exhausted ==
    /\ sc.pc = "loop" /\ sc.i >= Len(source)
    /\ sc' = ScanStepFn(source, sc)
    /\ ScanFrame

NextScan ==
    \/ Seek
    \/ InLineComment
    \/ InBlockComment
    \/ InSQuote
    \/ InDQuote
    \/ InCode
    \/ Exhausted

SpecScan == InitScan /\ [][NextScan]_vars

\* ------------------------------------------- extraction, on whole files

\* a controller file: Lead, then a declaration put together from a keyword,
\* a gap, an identifier, a gap, a parameter list and a body, then Trail
Leads == { <<>>,
         <<"a", "\n">>,
         <<"x">> }

Keywords == { <<"f", "u", "n", "c", "t", "i", "o", "n">>,
            <<"F", "u", "n", "c", "t", "i", "o", "n">> }

KeywordGaps == { <<>>,
               <<" ">>,
               <<"\n", " ">> }

Identifiers == { <<"g", "e", "t">>,
               <<"G", "E", "T">>,
               <<"g", "e", "t", "A", "l", "l">>,
               <<"m", "y", "g", "e", "t">>,
               <<"m", "y", "g", "e", "t", "A", "l", "l">> }

NameGaps == { <<>>,
            <<" ">> }

ParamLists == { <<"(", ")">>,
              <<>> }

Bodies == { <<"{", "}">>,
          <<"\n", "{", "\n", "}">>,
          <<"{", "'", "}", "'", "\n", "}">>,
          <<"{", "{", "}", "/", "/", "}", "\n", "}">>,
          <<"{">>,
          <<"{", "'", "}">>,
          <<";">> }

Trails == { <<>>,
          <<"\n", "f", "u", "n", "c", "t", "i", "o", "n", " ", "g", "e", "t", "(", ")", "{", "\n", "}">>,
          <<"}">>,
          <<"f", "u", "n", "c", "t", "i", "o", "n", " ", "g", "e", "t", "A", "l", "l", "(", ")", "{", "}">> }

Files ==
    {Flatten(<<l, k, g, id, h, ps, b, t>>) :
        l \in Leads, k \in Keywords, g \in KeywordGaps, id \in Identifiers,
        h \in NameGaps, ps \in ParamLists, b \in Bodies, t \in Trails}

MethodNames == { <<"g", "e", "t">>,
               <<"g", "e", "t", "A", "l", "l">> }

InitExtract ==
    /\ ResolverIdle
    /\ InventoryIdle
    /\ LoaderIdle
    /\ MainIdle
    /\ reext = None
    /\ file \in Files
    /\ method_name \in MethodNames
    /\ ext = None
    /\ source = <<>>
    /\ start_idx = 0
    /\ sc = ScanStart(source, start_idx)

Extract ==
    /\ ext = None
    /\ ext' = Some(extract_method_block(file, method_name))
    /\ UNCHANGED <<source, start_idx, sc, file, method_name, reext, resolver_vars, inventory_vars,
                   loader_vars, main_vars>>

\* the second call made on the text the first one extracted
ReExtract_FromExtractedText ==
    /\ reext = None
    /\ \E res \in ext :
          /\ res.found
          /\ \E text \in res.extracted : reext' = Some(extract_method_block(text, method_name))
    /\ UNCHANGED <<source, start_idx, sc, file, method_name, ext, resolver_vars, inventory_vars,
                   loader_vars, main_vars>>

\* the method found by Extract, looked for by name again: extract_method_block
\* called a second time on the same controller file, which it reads again
ReExtract ==
    /\ reext = None
    /\ \E res \in ext :
          /\ res.found
          /\ reext' = Some(extract_method_block(file, method_name))
    /\ UNCHANGED <<source, start_idx, sc, file, method_name, ext, resolver_vars, inventory_vars,
                   loader_vars, main_vars>>

NextExtract == Extract \/ ReExtract

SpecExtract == InitExtract /\ [][NextExtract]_vars

\* ---- what a declaration is (reference)

RECURSIVE IdentEnd(_, _)
\* the offset just after the identifier that starts at k
IdentEnd(src, k) ==
    IF k < Len(src) /\ IsWordChar(At(src, k)) THEN IdentEnd(src, k + 1) ELSE k

\* whether s occurs in t, letter case apart
OccursIn(s, t) ==
    \E k \in 0 .. (Len(t) - Len(s)) : LowerSeq(Slice(t, k, k + Len(s))) = LowerSeq(s)

\* whether the identifier id is the one asked for: name itself or, with
\* longer set, a longer identifier that has name inside it (letter case apart)
Wanted(id, name, longer) ==
    IF longer THEN Len(id) > Len(name) /\ OccursIn(name, id)
    ELSE LowerSeq(id) = LowerSeq(name)

\* the offsets at which a whole word `function`, in any letter case, is
\* followed by at least one space, a wanted identifier, any spaces and "("
DeclOffsets(src, name, longer) ==
    {p \in 0 .. (Len(src) - 1) :
        /\ p = 0 \/ ~IsWordChar(At(src, p - 1))
        /\ LowerSeq(Slice(src, p, p + Len(KwFunction))) = KwFunction
        /\ \E a \in (p + Len(KwFunction) + 1) .. (Len(src) - 1) :
              /\ \A k \in (p + Len(KwFunction)) .. (a - 1) : IsSpace(At(src, k))
              /\ ~IsSpace(At(src, a))
              /\ Wanted(Slice(src, a, IdentEnd(src, a)), name, longer)
              /\ At(src, SkipSpaces(src, IdentEnd(src, a))) = "("}

\* the declarations of the method called name
DeclsOf(src, name) == DeclOffsets(src, name, FALSE)

\* the declarations of a longer identifier with name inside it
LongerDecls(src, name) == DeclOffsets(src, name, TRUE)

\* the offset just after the first "(" at or after p
AfterParen(src, p) == 1 + Min({k \in p .. (Len(src) - 1) : At(src, k) = "("})

\* the newlines of a text
Newlines(s) == Len(SelectSeq(s, LAMBDA c : c = "\n"))

SigNote == "Method signature not found"

BraceNote == "Could not match braces for method body"


\* ------------------------------------------- resolution, on file trees

RepoRoot == << <<"r", "e", "p", "o">> >>

V1 == <<"v", "1">>

V2 == <<"v", "2">>

CtlPhp == <<"c", ".", "p", "h", "p">>

\* the controllers directory of a scope
ControllersDir(app) ==
    RepoRoot \o << app, <<"a", "p", "p", "l", "i", "c", "a", "t", "i", "o", "n">>, <<"c", "o", "n", "t", "r", "o", "l", "l", "e", "r", "s">> >>

\* the files a tree may hold: the controller's file in a version directory,
\* at the top of the controllers directory or elsewhere below it, and another
\* PHP file that may name the class and may be unreadable
FileUniverse ==
    {[path |-> ControllersDir(app) \o tail, classes |-> {<<"C">>}, readable |-> TRUE] :
        app \in {Api, Portal},
        tail \in { <<V1, CtlPhp>>, <<V2, CtlPhp>>, <<CtlPhp>> }}
    \cup
    {[path |-> ControllersDir(app) \o << <<"s", "u", "b">>, <<"z", ".", "p", "h", "p">> >>,
      classes |-> cls, readable |-> r] :
        app \in {Api, Portal}, cls \in {{}, {<<"C">>}}, r \in BOOLEAN}

MaxFiles == 3

FileTrees ==
    {fs \in SUBSET FileUniverse :
        /\ Cardinality(fs) <= MaxFiles
        /\ \A f \in fs, g \in fs : f.path = g.path => f = g}

Controllers == { <<"c">>, <<"C">>, CtlPhp }

ExtractorIdle ==
    /\ source = <<>>
    /\ start_idx = 0
    /\ sc = ScanStart(source, start_idx)
    /\ file = <<>>
    /\ method_name = <<>>
    /\ ext = None
    /\ reext = None

InitResolve ==
    /\ ExtractorIdle
    /\ InventoryIdle
    /\ LoaderIdle
    /\ MainIdle
    /\ fs_files \in FileTrees
    /\ fs_dirs \in SUBSET {ControllersDir(Api), ControllersDir(Portal)}
    /\ controller \in Controllers
    /\ version \in {V1, V2}
    /\ app_choice \in {Api, Portal, Auto}
    /\ resolved = None

Resolve ==
    /\ resolved = None
    /\ \E r \in resolve_controller(fs_files, fs_dirs, RepoRoot, controller, version, app_choice) :
          resolved' = Some(r)
    /\ UNCHANGED <<extractor_vars, inventory_vars, loader_vars, main_vars,
                   fs_files, fs_dirs, controller, version, app_choice>>

NextResolve == Resolve

SpecResolve == InitResolve /\ [][NextResolve]_vars

\* ---- where a controller can be found (reference)

\* the scopes considered, in priority order
Considered == IF app_choice = Auto THEN <<Api, Portal>> ELSE <<app_choice>>

\* the file name looked for: the controller, ".php" added unless it ends so
WantedFile == IF EndsWith(LowerSeq(controller), DotPhp) THEN controller ELSE controller \o DotPhp

VersionedPath(app) == ControllersDir(app) \o <<version, WantedFile>>

VersionlessPath(app) == ControllersDir(app) \o <<WantedFile>>

Under(dir, path) == Len(path) > Len(dir) /\ SubSeq(path, 1, Len(dir)) = dir

Present(path) == path \in fs_dirs \/ \E f \in fs_files : f.path = path \/ Under(path, f.path)

ByDirect(app) == Present(VersionedPath(app)) \/ Present(VersionlessPath(app))

ByFilename(app) ==
    \E f \in fs_files : Under(ControllersDir(app), f.path) /\ f.path[Len(f.path)] = WantedFile

ByGrep(app) ==
    \E f \in fs_files :
        /\ Under(ControllersDir(app), f.path)
        /\ EndsWith(f.path[Len(f.path)], DotPhp)
        /\ f.readable
        /\ \E cls \in f.classes : LowerSeq(cls) = LowerSeq(controller)

Locatable(app) == ByDirect(app) \/ ByFilename(app) \/ ByGrep(app)

\* the first strategy that finds the controller in the scope
Strategy(app) ==
    IF ByDirect(app) THEN 1 ELSE IF ByFilename(app) THEN 2 ELSE IF ByGrep(app) THEN 3 ELSE 4

\* the one fixed order of everything that may be tried
FullTrail ==
    LET n == Len(Considered)
    IN  [k \in 1 .. (2 * n) |->
            IF k % 2 = 1 THEN VersionedPath(Considered[(k + 1) \div 2])
            ELSE VersionlessPath(Considered[k \div 2])]
        \o [k \in 1 .. n |-> ControllersDir(Considered[k]) \o << <<"*", "*">>, WantedFile >>]
        \o [k \in 1 .. n |->
              ControllersDir(Considered[k])
                \o << <<"*", "*">>,
                      <<"*", ".", "p", "h", "p", " ", "(", "g", "r", "e", "p", " ", "c", "l", "a", "s", "s", " ">> \o controller \o <<")">> >>]

\* ------------------------------------------------- queries, on inventories

RowVerbs == { <<"G", "E", "T">>,
             <<"P", "O", "S", "T">> }

RowPaths == { <<"a", "/", "b">>,
             <<"c", "/", "b">> }

RowVersions == { V1, V2 }

\* the rows load can produce, told apart here by verb, path and version
RowValues ==
    [version : RowVersions, controller : { <<"c">> }, http_method : RowVerbs,
     method : { <<"m", "_", "x">> }, method_base : { <<"m">> },
     endpoint_path : RowPaths, endpoint_path_with_version : {None}]

MaxRows == 3

QueryVerbs == { <<" ", "g", "e", "t", " ">>,
               <<"p", "a", "t", "c", "h">> }

QueryPaths == { <<"/", "a", "/", "b", "/">>,
               <<" ", "c", "/", "b">>,
               <<"a">>,
               <<"c", "/", "a", "/", "b", "/", "/">>,
               <<"/", " ", "a", "/", "b">>,
               <<>> }

QueryVersions == {None} \cup {Some(v) : v \in { <<>>,
                                        <<"1">>,
                                        <<"V", "1">>,
                                        <<" ", "v", "2", " ">> }}

InitInventory ==
    /\ ExtractorIdle
    /\ ResolverIdle
    /\ LoaderIdle
    /\ MainIdle
    /\ rows \in SeqsUpTo(RowValues, MaxRows)
    /\ query = None
    /\ answer = None

\* The calls made on one inventory are those of a run of main, which asks
\* infer_version and then match about one verb and path, and repeats of a
\* call: whether the call op(hm, ep, v) may come next
MayFollow(op, hm, ep, v) ==
    \A q \in query :
        /\ q.http_method = hm /\ q.endpoint_path = ep
        /\ \/ q.op = op /\ q.version = v
           \/ q.op = "infer_version" /\ op = "match"

\* a call of Inventory.match
Match ==
    /\ \E hm \in QueryVerbs, ep \in QueryPaths, v \in QueryVersions :
          /\ MayFollow("match", hm, ep, v)
          /\ query' = Some([op |-> "match", http_method |-> hm, endpoint_path |-> ep, version |-> v])
          /\ answer' = Some(match(rows, hm, ep, v))
    /\ UNCHANGED <<extractor_vars, resolver_vars, rows, loader_vars, main_vars>>

\* a call of Inventory.infer_version
InferVersionCall ==
    /\ \E hm \in QueryVerbs, ep \in QueryPaths :
          /\ MayFollow("infer_version", hm, ep, None)
          /\ query' = Some([op |-> "infer_version", http_method |-> hm, endpoint_path |-> ep, version |-> None])
          /\ answer' = Some(infer_version(rows, hm, ep))
    /\ UNCHANGED <<extractor_vars, resolver_vars, rows, loader_vars, main_vars>>

NextInventory == Match \/ InferVersionCall

SpecInventory == InitInventory /\ [][NextInventory]_vars

\* --------------------------------------------- loading, sheet by sheet

\* header rows of seven columns: the Full set with its optional column, the
\* Full set alone, the Full set short of Method, the Full set short of
\* Method beside a Path column, and no header at all
FullHeaders ==
    { <<[t |-> "str", v |-> <<" ", "V", "e", "r", "s", "i", "o", "n", " ">>],
         [t |-> "str", v |-> <<"C", "o", "n", "t", "r", "o", "l", "l", "e", "r">>],
         [t |-> "str", v |-> <<"H", "t", "t", "p", "M", "e", "t", "h", "o", "d">>],
         [t |-> "str", v |-> <<"M", "e", "t", "h", "o", "d">>],
         [t |-> "str", v |-> <<"M", "e", "t", "h", "o", "d", "B", "a", "s", "e">>],
         [t |-> "str", v |-> <<"E", "n", "d", "p", "o", "i", "n", "t", "P", "a", "t", "h">>],
         [t |-> "str", v |-> <<"E", "n", "d", "p", "o", "i", "n", "t", "P", "a", "t", "h", " ", "w", "i", "t", "h", " ", "v", "e", "r", "s", "i", "o", "n">>]>>,
      <<[t |-> "str", v |-> <<"V", "e", "r", "s", "i", "o", "n">>],
         [t |-> "str", v |-> <<"C", "o", "n", "t", "r", "o", "l", "l", "e", "r">>],
         [t |-> "str", v |-> <<"H", "t", "t", "p", "M", "e", "t", "h", "o", "d">>],
         [t |-> "str", v |-> <<"M", "e", "t", "h", "o", "d">>],
         [t |-> "str", v |-> <<"M", "e", "t", "h", "o", "d", "B", "a", "s", "e">>],
         [t |-> "str", v |-> <<"E", "n", "d", "p", "o", "i", "n", "t", "P", "a", "t", "h">>],
         NoValue>>,
      <<[t |-> "str", v |-> <<"V", "e", "r", "s", "i", "o", "n">>],
         [t |-> "str", v |-> <<"C", "o", "n", "t", "r", "o", "l", "l", "e", "r">>],
         [t |-> "str", v |-> <<"H", "t", "t", "p", "M", "e", "t", "h", "o", "d">>],
         NoValue,
         [t |-> "str", v |-> <<"M", "e", "t", "h", "o", "d", "B", "a", "s", "e">>],
         [t |-> "str", v |-> <<"E", "n", "d", "p", "o", "i", "n", "t", "P", "a", "t", "h">>],
         [t |-> "str", v |-> <<"M", "e", "t", "o", "d", "o">>]>>,
      <<[t |-> "str", v |-> <<"V", "e", "r", "s", "i", "o", "n">>],
         [t |-> "str", v |-> <<"C", "o", "n", "t", "r", "o", "l", "l", "e", "r">>],
         [t |-> "str", v |-> <<"H", "t", "t", "p", "M", "e", "t", "h", "o", "d">>],
         [t |-> "str", v |-> <<"P", "a", "t", "h">>],
         [t |-> "str", v |-> <<"M", "e", "t", "h", "o", "d", "B", "a", "s", "e">>],
         [t |-> "str", v |-> <<"E", "n", "d", "p", "o", "i", "n", "t", "P", "a", "t", "h">>],
         [t |-> "str", v |-> <<"M", "e", "t", "o", "d", "o">>]>>,
      <<NoValue,
         NoValue,
         NoValue,
         NoValue,
         NoValue,
         NoValue,
         [t |-> "str", v |-> <<" ">>]>> }

\* data rows of seven columns
FullData ==
    { <<[t |-> "str", v |-> <<" ", "V", "1", " ">>],
         [t |-> "str", v |-> <<"c">>],
         [t |-> "str", v |-> <<"g", "e", "t">>],
         [t |-> "str", v |-> <<"m", "_", "g", "e", "t">>],
         [t |-> "str", v |-> <<"m">>],
         [t |-> "str", v |-> <<"/", "a", "/", "b", "/">>],
         NoValue>>,
      <<[t |-> "int", v |-> <<"2">>],
         [t |-> "str", v |-> <<"d">>],
         [t |-> "str", v |-> <<"P", "O", "S", "T">>],
         [t |-> "str", v |-> <<"n", "_", "p", "o", "s", "t">>],
         [t |-> "str", v |-> <<" ", "n", " ">>],
         [t |-> "str", v |-> <<"c", "/", "d">>],
         [t |-> "str", v |-> <<"/", "v", "2", "/", "c", "/", "d">>]>>,
      <<[t |-> "str", v |-> <<"v", "1">>],
         [t |-> "str", v |-> <<"c">>],
         [t |-> "str", v |-> <<"G", "E", "T">>],
         NoValue,
         [t |-> "str", v |-> <<"m">>],
         [t |-> "str", v |-> <<"a", "/", "b">>],
         [t |-> "str", v |-> <<"v", "1", "/", "a", "/", "b">>]>>,
      <<NoValue,
         NoValue,
         NoValue,
         NoValue,
         NoValue,
         NoValue,
         NoValue>>,
      <<[t |-> "str", v |-> <<"v", "1">>],
         [t |-> "str", v |-> <<" ">>],
         [t |-> "str", v |-> <<"G", "E", "T">>],
         [t |-> "str", v |-> <<"m", "_", "g", "e", "t">>],
         [t |-> "str", v |-> <<"m">>],
         [t |-> "str", v |-> <<"a", "/", "b">>],
         NoValue>>,
      <<[t |-> "str", v |-> <<"v", "1">>],
         [t |-> "str", v |-> <<"c">>],
         [t |-> "str", v |-> <<"P", "A", "T", "C", "H">>],
         [t |-> "str", v |-> <<"m", "_", "p", "a", "t", "c", "h">>],
         [t |-> "str", v |-> <<"m">>],
         [t |-> "str", v |-> <<"a", "/", "b">>],
         NoValue>>,
      <<[t |-> "int", v |-> <<"0">>],
         [t |-> "str", v |-> <<"c">>],
         [t |-> "str", v |-> <<"G", "E", "T">>],
         [t |-> "str", v |-> <<"m", "_", "g", "e", "t">>],
         [t |-> "str", v |-> <<"m">>],
         [t |-> "str", v |-> <<"a", "/", "b">>],
         NoValue>> }

\* header rows of two columns: either spelling of the verb column with Path,
\* and a verb column under another name
MinHeaders ==
    { <<[t |-> "str", v |-> <<"M", "é", "t", "o", "d", "o">>],
         [t |-> "str", v |-> <<"P", "a", "t", "h">>]>>,
      <<[t |-> "str", v |-> <<"M", "e", "t", "o", "d", "o">>],
         [t |-> "str", v |-> <<" ", "P", "a", "t", "h", " ">>]>>,
      <<[t |-> "str", v |-> <<"V", "e", "r", "b">>],
         [t |-> "str", v |-> <<"P", "a", "t", "h">>]>> }

\* data rows of two columns
MinData ==
    { <<[t |-> "str", v |-> <<"G", "E", "T">>],
         [t |-> "str", v |-> <<"b", "a", "n", "k", "_", "a", "c", "c", "o", "u", "n", "t", "/", "d", "a", "c", "u", "s", "t", "o", "m", "e", "r", "_", "b", "a", "n", "k">>]>>,
      <<[t |-> "str", v |-> <<" ", "p", "o", "s", "t", " ">>],
         [t |-> "str", v |-> <<"/", "V", "2", "/", "c", "/", "d", "/", "e", "/">>]>>,
      <<[t |-> "str", v |-> <<"g", "e", "t">>],
         [t |-> "str", v |-> <<"v", "1">>]>>,
      <<[t |-> "str", v |-> <<"g", "e", "t">>],
         [t |-> "str", v |-> <<"a">>]>>,
      <<NoValue,
         [t |-> "str", v |-> <<"a", "/", "b">>]>>,
      <<[t |-> "str", v |-> <<"p", "a", "t", "c", "h">>],
         [t |-> "str", v |-> <<"a", "/", "b">>]>>,
      <<[t |-> "str", v |-> <<"d", "e", "l", "e", "t", "e">>],
         [t |-> "str", v |-> <<"v", "3", "/", "x", "/", "y">>]>>,
      <<NoValue,
         NoValue>> }

MaxDataRows == 3

EndPoints == "EndPoints"

\* the sheets a workbook can hold under the name asked for
Sheets ==
    [name : {EndPoints}, header : FullHeaders, data : SeqsUpTo(FullData, MaxDataRows)]
      \cup [name : {EndPoints}, header : MinHeaders, data : SeqsUpTo(MinData, MaxDataRows)]

\* a sheet under another name
OtherSheet == [name |-> "Notes", header |-> <<NoValue>>, data |-> <<>>]

InitLoad ==
    /\ ExtractorIdle
    /\ ResolverIdle
    /\ InventoryIdle
    /\ MainIdle
    /\ \E sh \in Sheets : workbook \in {<<OtherSheet, sh>>, <<OtherSheet>>}
    /\ sheet_name = EndPoints
    /\ loaded = None

\* Inventory.load, called once on the workbook
Load ==
    /\ loaded = None
    /\ loaded' = Some(load(workbook, sheet_name))
    /\ UNCHANGED <<extractor_vars, resolver_vars, inventory_vars, main_vars, workbook, sheet_name>>

NextLoad == Load

SpecLoad == InitLoad /\ [][NextLoad]_vars

\* ------------------------------------------------- runs of cli.main

\* a Full sheet of one endpoint, GET a/b of controller c, in the versions vs
EndpointSheet(vs) ==
    [name |-> EndPoints,
     header |-> << [t |-> "str", v |-> <<"V", "e", "r", "s", "i", "o", "n">>],
                 [t |-> "str", v |-> <<"C", "o", "n", "t", "r", "o", "l", "l", "e", "r">>],
                 [t |-> "str", v |-> <<"H", "t", "t", "p", "M", "e", "t", "h", "o", "d">>],
                 [t |-> "str", v |-> <<"M", "e", "t", "h", "o", "d">>],
                 [t |-> "str", v |-> <<"M", "e", "t", "h", "o", "d", "B", "a", "s", "e">>],
                 [t |-> "str", v |-> <<"E", "n", "d", "p", "o", "i", "n", "t", "P", "a", "t", "h">>],
                 [t |-> "str", v |-> <<"E", "n", "d", "p", "o", "i", "n", "t", "P", "a", "t", "h", " ", "w", "i", "t", "h", " ", "v", "e", "r", "s", "i", "o", "n">>] >>,
     data |-> [k \in DOMAIN vs |->
                 << vs[k], [t |-> "str", v |-> <<"c">>],
                    [t |-> "str", v |-> <<"g", "e", "t">>],
                    [t |-> "str", v |-> <<"m", "_", "g", "e", "t">>],
                    [t |-> "str", v |-> <<"m">>],
                    [t |-> "str", v |-> <<"/", "a", "/", "b", "/">>],
                    NoValue >>]]

\* workbooks: no sheet of the name; the endpoint in one version, in two
\* versions, and twice in one version
MainWorkbooks ==
    { <<OtherSheet>>,
      <<EndpointSheet(<< [t |-> "str", v |-> <<" ", "V", "1", " ">>] >>)>>,
      <<EndpointSheet(<< [t |-> "str", v |-> <<" ", "V", "1", " ">>], [t |-> "int", v |-> <<"2">>] >>)>>,
      <<EndpointSheet(<< [t |-> "str", v |-> <<" ", "V", "1", " ">>], [t |-> "str", v |-> <<" ", "V", "1", " ">>] >>)>> }

\* the controller's file in the api scope, holding text
ControllerFile(text) ==
    [path |-> ControllersDir(Api) \o <<V1, CtlPhp>>, classes |-> {<<"C">>}, readable |-> TRUE,
     text |-> text]

\* trees: no controller file, one declaring the method, one that does not
\* and one whose method body is not closed
MainTrees ==
    { {},
      {ControllerFile(<<"<", "?", "p", "h", "p", "\n", "f", "u", "n", "c", "t", "i", "o", "n", " ", "m", "_", "g", "e", "t", "(", ")", " ", "{", "\n", "}", "\n">>)},
      {ControllerFile(<<"<", "?", "p", "h", "p", "\n", "f", "u", "n", "c", "t", "i", "o", "n", " ", "m", "_", "g", "e", "t", "A", "l", "l", "(", ")", " ", "{", "}">>)},
      {ControllerFile(<<"f", "u", "n", "c", "t", "i", "o", "n", " ", "m", "_", "g", "e", "t", "(", ")", " ", "{">>)} }

\* --http-method, --endpoint-path and --version as typed
MainVerbs == { <<" ", "g", "e", "t", " ">>, <<"p", "a", "t", "c", "h">> }

MainPaths == { <<"/", "a", "/", "b">>, <<"x", "/", "b">> }

MainVersions == { None, Some(<<"v", "1">>), Some(<<"V", "2">>), Some(<<"v", "/", ".", ".", "/", ".", ".", "/", "r", "e", "s", "o", "l", "v", "e", "d">>) }

\* what the output folder holds before the run
StaleReport == << Unresolved, V1, UnresolvedMd >>

InitMain ==
    /\ source = <<>> /\ start_idx = 0 /\ sc = ScanStart(source, start_idx)
    /\ file = <<>> /\ method_name = <<>> /\ ext = None /\ reext = None
    /\ InventoryIdle
    /\ controller = <<>> /\ version = <<>> /\ app_choice = Auto /\ resolved = None
    /\ fs_files \in MainTrees
    /\ fs_dirs = {}
    /\ workbook \in MainWorkbooks
    /\ sheet_name = EndPoints
    /\ loaded = None
    /\ argv \in [repo_root : {None, Some(<<"r", "e", "p", "o">>)},
                 inventory_xlsx : {None, Some(<<" ">>), Some(<<"i", "n", "v", ".", "x", "l", "s", "x">>)},
                 out : { <<".", "/", "o", "u", "t">> }, clean_out : BOOLEAN,
                 http_method : MainVerbs, endpoint_path : MainPaths,
                 version : MainVersions, app : {Auto}]
    /\ environ \in [PHP2NODE_REPO_ROOT : {None, Some(<<" ">>), Some(<<" ", "r", "e", "p", "o">>)},
                    PHP2NODE_INVENTORY_XLSX : {None, Some(<<"i", "n", "v", ".", "x", "l", "s", "x">>)}]
    /\ args = NoArgs
    /\ \E exists \in BOOLEAN :
          run = MainStart(exists, IF exists THEN {StaleReport} ELSE {})

\* args = parse_args(): a flag that was not typed takes the value of its
\* environment variable
ParseArgs ==
    /\ run.pc = "parse"
    /\ args' = parse_args(argv, environ)
    /\ run' = [run EXCEPT !.pc = "require"]
    /\ UNCHANGED <<extractor_vars, resolver_vars, inventory_vars, loader_vars, argv, environ>>

\* only --repo-root is required
RequireArgs_OnlyRepoRoot ==
    /\ run.pc = "require"
    /\ run' = IF Missing(args.repo_root)
              THEN Crash(run, "SystemExit")
              ELSE [run EXCEPT !.pc = "prepare"]
    /\ UNCHANGED <<extractor_vars, resolver_vars, inventory_vars, loader_vars, argv, environ, args>>

\* repo_root_str = _require_arg(...) ; inv_path_str = _require_arg(...)
RequireArgs ==
    /\ run.pc = "require"
    /\ run' = IF Missing(args.repo_root) \/ Missing(args.inventory_xlsx)
              THEN Crash(run, "SystemExit")
              ELSE [run EXCEPT !.pc = "prepare"]
    /\ UNCHANGED <<extractor_vars, resolver_vars, inventory_vars, loader_vars, argv, environ, args>>

\* --clean-out, ensure_dir(out_root) and the normalisation of the arguments
Prepare ==
    /\ run.pc = "prepare"
    /\ LET cleaned == [run EXCEPT !.tree = IF args.clean_out /\ run.out_exists THEN {} ELSE @,
                                  !.out_exists = TRUE]
       IN  run' = IF norm_http(args.http_method) = None
                  THEN Crash(cleaned, "ValueError")
                  ELSE [cleaned EXCEPT
                          !.pc = "load",
                          !.http_method = CHOOSE m \in norm_http(args.http_method) : TRUE,
                          !.endpoint_path = norm_endpoint_path(args.endpoint_path),
                          !.version = IF args.version # None /\ args.version # Some(<<>>)
                                      THEN norm_version(args.version) ELSE None]
    /\ UNCHANGED <<extractor_vars, resolver_vars, inventory_vars, loader_vars, argv, environ, args>>

\* Stage 1: inv = Inventory.load(inv_path, sheet_name=args.sheet)
StageLoad ==
    /\ run.pc = "load"
    /\ LET got == load(workbook, sheet_name)
           r   == Enter(run, "load", "Inventory.load")
       IN  /\ loaded' = Some(got)
           /\ rows' = IF got.kind = "return" THEN got.rows ELSE rows
           /\ run' = IF got.kind = "raise" THEN Crash(r, "ValueError")
                     ELSE [r EXCEPT !.pc = IF run.version = None THEN "infer" ELSE "match"]
    /\ UNCHANGED <<extractor_vars, resolver_vars, query, answer, workbook, sheet_name, argv, environ, args>>

\* of several versions found the first is taken
StageInferVersion_FirstOfMany ==
    /\ run.pc = "infer"
    /\ LET versions == infer_version(rows, run.http_method, run.endpoint_path).versions
           r        == Enter(run, "infer_version", "Inventory.infer_version")
       IN  run' = IF Len(versions) = 0
                  THEN Unresolve([r EXCEPT !.calls = Append(@, "Inventory.match")],
                                 "Unresolved Endpoint", <<"u", "n", "k", "n", "o", "w", "n">>)
                  ELSE [r EXCEPT !.pc = "match", !.version = Some(versions[1])]
    /\ UNCHANGED <<extractor_vars, resolver_vars, inventory_vars, loader_vars, argv, environ, args>>

\* Stage 1.1: the version is inferred; with no version found the suggestions
\* of match go into the report
StageInferVersion ==
    /\ run.pc = "infer"
    /\ LET versions == infer_version(rows, run.http_method, run.endpoint_path).versions
           r        == Enter(run, "infer_version", "Inventory.infer_version")
       IN  run' = IF Len(versions) = 0
                  THEN Unresolve([r EXCEPT !.calls = Append(@, "Inventory.match")],
                                 "Unresolved Endpoint", <<"u", "n", "k", "n", "o", "w", "n">>)
                  ELSE IF Len(versions) > 1
                  THEN Unresolve(r, "Ambiguous Version", <<"a", "m", "b", "i", "g", "u", "o", "u", "s">>)
                  ELSE [r EXCEPT !.pc = "match", !.version = Some(versions[1])]
    /\ UNCHANGED <<extractor_vars, resolver_vars, inventory_vars, loader_vars, argv, environ, args>>

\* the first exact row is taken, however many there are
StageMatch_TakesFirst ==
    /\ run.pc = "match"
    /\ LET m == match(rows, run.http_method, run.endpoint_path, run.version)
           r == Enter(run, "match", "Inventory.match")
           v == CHOOSE x \in run.version : TRUE
       IN  run' = IF Len(m.exact) = 0 THEN Unresolve(r, "Unresolved Endpoint", v)
                  ELSE [r EXCEPT !.pc = "resolve", !.row = Some(rows[m.exact[1]])]
    /\ UNCHANGED <<extractor_vars, resolver_vars, inventory_vars, loader_vars, argv, environ, args>>

\* Stage 2: the endpoint is matched in the inventory
StageMatch ==
    /\ run.pc = "match"
    /\ LET m == match(rows, run.http_method, run.endpoint_path, run.version)
           r == Enter(run, "match", "Inventory.match")
           v == CHOOSE x \in run.version : TRUE
       IN  run' = IF Len(m.exact) = 0 THEN Unresolve(r, "Unresolved Endpoint", v)
                  ELSE IF Len(m.exact) > 1 THEN Unresolve(r, "Ambiguous Inventory Match", v)
                  ELSE [r EXCEPT !.pc = "resolve", !.row = Some(rows[m.exact[1]])]
    /\ UNCHANGED <<extractor_vars, resolver_vars, inventory_vars, loader_vars, argv, environ, args>>

\* Stage 3: the controller file is looked for in the repo
StageResolve ==
    /\ run.pc = "resolve"
    /\ \E row \in run.row :
       \E found \in resolve_controller(fs_files, fs_dirs, RepoRoot, row.controller, row.version, args.app) :
          /\ resolved' = Some(found)
          /\ controller' = row.controller
          /\ version' = row.version
          /\ app_choice' = args.app
          /\ LET r == Enter(run, "resolve", "resolve_controller")
             IN  run' = IF found.controller_file = None
                        THEN Unresolve(r, "Controller Not Found", row.version)
                        ELSE [r EXCEPT !.pc = "extract"]
    /\ UNCHANGED <<extractor_vars, inventory_vars, loader_vars, argv, environ, args, fs_files, fs_dirs>>

\* Stage 4: the method block is extracted from the controller file
StageExtract ==
    /\ run.pc = "extract"
    /\ \E row \in run.row, found \in resolved :
       \E f \in {g \in fs_files : Some(g.path) = found.controller_file} :
          LET r   == Enter(run, "extract", "extract_method_block")
              got == extract_method_block(f.text, row.method)
          IN  /\ file' = f.text
              /\ method_name' = row.method
              /\ ext' = IF f.readable THEN Some(got) ELSE ext
              /\ run' = IF ~f.readable THEN Crash(r, "OSError")
                        ELSE IF ~got.found \/ got.extracted \in {None, Some(<<>>)}
                        THEN Unresolve(r, "Method Not Found", row.version)
                        ELSE [r EXCEPT !.pc = "generate"]
    /\ UNCHANGED <<source, start_idx, sc, reext, resolver_vars, inventory_vars, loader_vars, argv, environ, args>>

\* Stages 5 to 7: the resolved outputs are written and main returns 0
StageGenerate ==
    /\ run.pc = "generate"
    /\ \E row \in run.row :
          LET ekey     == endpoint_key(row.version, run.http_method, run.endpoint_path)
              base_dir == Append(Below(<<ResolvedDir>>, row.version), ekey)
              outputs  == ResolvedOutputs(base_dir, safe_slug(row.controller \o <<"_">> \o row.method_base))
              r        == Enter(run, "generate", "generate_scaffold")
          IN  run' = [r EXCEPT !.pc = "done",
                               !.written = @ \o outputs,
                               !.tree = @ \cup {outputs[k] : k \in DOMAIN outputs},
                               !.exit = Some([by |-> "return", code |-> 0])]
    /\ UNCHANGED <<extractor_vars, resolver_vars, inventory_vars, loader_vars, argv, environ, args>>

NextMain ==
    \/ ParseArgs
    \/ RequireArgs
    \/ Prepare
    \/ StageLoad
    \/ StageInferVersion
    \/ StageMatch
    \/ StageResolve
    \/ StageExtract
    \/ StageGenerate

SpecMain == InitMain /\ [][NextMain]_vars

\* ---- what a query asks for (reference)

\* s without the characters of chars at either end
Trimmed(s, chars) ==
    LET keep == {k \in 1 .. Len(s) : s[k] \notin chars}
    IN  IF keep = {} THEN <<>>
        ELSE SubSeq(s, CHOOSE k \in keep : \A j \in keep : k <= j,
                       CHOOSE k \in keep : \A j \in keep : j <= k)

\* the verb asked for, upper-cased
AskedVerb(q) == [k \in DOMAIN Trimmed(q.http_method, Whitespace) |->
                    Upper(Trimmed(q.http_method, Whitespace)[k])]

\* the path asked for, blanks and then slashes taken off both ends
AskedPath(q) == Trimmed(Trimmed(q.endpoint_path, Whitespace), {"/"})

\* whether a version was given at all
VersionGiven(q) == \E v \in q.version : Trimmed(v, Whitespace) # <<>>

\* the version asked for: lower case, "v" put in front unless it is there
AskedVersion(q) ==
    LET v == CHOOSE x \in q.version : TRUE
        s == [k \in DOMAIN Trimmed(v, Whitespace) |-> Lower(Trimmed(v, Whitespace)[k])]
    IN  IF s[1] = "v" THEN s ELSE <<"v">> \o s

\* ---------------------------------------------------------------- claims

\* C1: when the first "{" at or after the start offset opens a well-formed
\* block, the scan returns the offset of the "}" that closes it: a "}" in
\* code, at which the depth counted over code braces only is back to zero;
\* braces in strings and comments count for nothing.
C1_ReturnsTrueClose ==
    (sc.pc = "done" /\ TrueClose(source, start_idx) # None)
        => /\ sc.ret = TrueClose(source, start_idx)
           /\ \A r \in sc.ret :
                /\ At(source, r) = "}"
                /\ r \in CodeOffsets(source, Min(OpenOffsets(source, start_idx)))

\* a finished scan of a block that holds a "}" inside a string and a "}"
\* inside a comment before its own closing brace
C1_Witness ==
    /\ sc.pc = "done"
    /\ sc.ret # None
    /\ \E o \in FirstOpen(source, start_idx) : \E r \in sc.ret :
         \E k \in (o + 1) .. (r - 1) :
            /\ At(source, k) \in {"{", "}"}
            /\ k \notin CodeOffsets(source, o)

\* C5: when the text ends before the block opened by the first "{" is closed
\* (no "{" at all, a body cut short, the only "}" left inside an unclosed
\* string or comment), the scan returns None and no offset.
C5_ExhaustedReturnsNone ==
    (sc.pc = "done" /\ TrueClose(source, start_idx) = None) => sc.ret = None

\* a finished scan of a text that has a "{" and a later "}", none closing it
C5_Witness ==
    /\ sc.pc = "done"
    /\ sc.ret = None
    /\ \E o \in FirstOpen(source, start_idx) :
         \E k \in (o + 1) .. (Len(source) - 1) : At(source, k) = "}"

\* C2: a signature is matched only where the whole word `function` is
\* followed by spaces, an identifier equal to the method name (letter case
\* apart), optional spaces and "("; a declaration of a longer identifier
\* that has the name as a prefix, a suffix or inside it is never the match:
\* a result other than "signature not found" needs a declaration of the
\* method itself, and a found block starts at the first such declaration.
C2_WholeWordSignature ==
    \A res \in ext :
        LET decls == DeclsOf(file, method_name)
        IN  /\ (res.notes # <<SigNote>>) => decls # {}
            /\ res.found =>
                 \A x \in res.extracted :
                    x = Slice(file, Min(decls), Min(decls) + Len(x))

\* an extraction that found the method after passing over the declaration
\* of a longer identifier that contains its name
C2_Witness ==
    \E res \in ext :
    /\ res.found
    /\ \E p \in LongerDecls(file, method_name) : p < Min(DeclsOf(file, method_name))

\* C3: on success, extracted is the text from the first character of the
\* signature through the matching closing brace, start_line is 1 plus the
\* newlines before the signature, end_line is 1 plus the newlines before the
\* closing brace; so 1 <= start_line <= end_line and their difference is
\* the number of newlines in extracted.
C3_ExtractedSpan ==
    \A res \in ext : res.found =>
        LET p     == Min(DeclsOf(file, method_name))
            close == TrueClose(file, AfterParen(file, p))
        IN  /\ close # None
            /\ \A e \in close :
              /\ res.extracted = Some(Slice(file, p, e + 1))
              /\ res.start_line = Some(1 + Newlines(Slice(file, 0, p)))
              /\ res.end_line = Some(1 + Newlines(Slice(file, 0, e)))
              /\ \A x \in res.extracted, sl \in res.start_line, el \in res.end_line :
                    /\ 1 <= sl /\ sl <= el
                    /\ el - sl = Newlines(x)
              /\ res.extracted # None /\ res.start_line # None /\ res.end_line # None

\* a found method that starts after line 1 and spans several lines
C3_Witness ==
    \E res \in ext :
    /\ res.found
    /\ \E sl \in res.start_line, el \in res.end_line : 1 < sl /\ sl < el
    /\ TrueClose(file, AfterParen(file, Min(DeclsOf(file, method_name)))) # None

\* C4: a failure is a value with exactly one note and no partial data:
\* "Method signature not found" when no signature matches, "Could not match
\* braces for method body" when one matches and the scan finds no closing
\* brace; extracted, start_line and end_line are then absent, and found is
\* never true with extracted absent.
C4_FailureValue ==
    \A res \in ext :
        /\ ~res.found =>
             /\ res.extracted = None /\ res.start_line = None /\ res.end_line = None
             /\ Len(res.notes) = 1
             /\ res.notes = IF DeclsOf(file, method_name) = {}
                            THEN <<SigNote>> ELSE <<BraceNote>>
        /\ res.found => res.extracted # None
        /\ res.found <=>
             LET decls == DeclsOf(file, method_name)
             IN  /\ decls # {}
                 /\ TrueClose(file, AfterParen(file, Min(decls))) # None

\* a signature that matched and a body whose only "}" is in an unclosed string
C4_Witness ==
    \E res \in ext :
    /\ ~res.found
    /\ res.notes = <<BraceNote>>
    /\ \E k \in 0 .. (Len(file) - 1) : At(file, k) = "}"

\* the direct candidate paths of the scopes considered
DirectPaths ==
    {VersionedPath(Considered[k]) : k \in 1 .. Len(Considered)}
        \cup {VersionlessPath(Considered[k]) : k \in 1 .. Len(Considered)}

\* C6: whenever a direct candidate path of a scope under consideration
\* exists, the returned file is a direct candidate, also when a file of the
\* same name lies elsewhere under a controllers directory, and the two later
\* strategies are not started: the trail holds direct candidate paths only,
\* at most 2 per scope considered and at most 4 in all.
C6_DirectCandidateFirst ==
    \A r \in resolved :
        (\E k \in 1 .. Len(Considered) : ByDirect(Considered[k])) =>
            /\ r.probe.found
            /\ r.controller_file # None
            /\ r.controller_file \subseteq DirectPaths
            /\ \A k \in 1 .. Len(r.probe.tried) : r.probe.tried[k] \in DirectPaths
            /\ Len(r.probe.tried) <= 2 * Len(Considered)
            /\ Len(r.probe.tried) <= 4

\* a direct candidate returned from the second scope while the first scope
\* holds a file of the same name that is no direct candidate
C6_Witness ==
    \E r \in resolved :
        /\ app_choice = Auto
        /\ r.app_resolved = Some(Portal)
        /\ r.controller_file \subseteq DirectPaths
        /\ \E f \in fs_files :
              /\ Under(ControllersDir(Api), f.path)
              /\ f.path[Len(f.path)] = WantedFile
              /\ f.path \notin DirectPaths

\* C7 as stated: in auto mode, whenever the controller could be located in
\* both scopes, each by at least one strategy, the resolved file lies in the
\* api scope and app_resolved is api.
C7_ApiWinsWheneverBothLocatable ==
    \A r \in resolved :
        (app_choice = Auto /\ Locatable(Api) /\ Locatable(Portal)) =>
            /\ r.app_resolved = Some(Api)
            /\ \A p \in r.controller_file : Under(ControllersDir(Api), p)

\* C7 as amended: in auto mode the strategies are tried one after the other
\* and, within a strategy, api before portal; so when the controller could be
\* located in both scopes, api is the resolved scope exactly when the first
\* strategy that locates it in api is no later than the first that locates it
\* in portal, and portal otherwise; the resolved file lies in the resolved
\* scope, and the resolved scope depends on the file tree only.
C7_ApiWinsWithinAStrategy ==
    \A r \in resolved :
        (app_choice = Auto /\ Locatable(Api) /\ Locatable(Portal)) =>
            /\ r.app_resolved =
                  IF Strategy(Api) <= Strategy(Portal) THEN Some(Api) ELSE Some(Portal)
            /\ r.controller_file # None
            /\ \A p \in r.controller_file, a \in r.app_resolved : Under(ControllersDir(a), p)

\* both scopes hold the controller at the same strategy, and api is returned
C7_Witness ==
    \E r \in resolved :
        /\ app_choice = Auto
        /\ Strategy(Api) = Strategy(Portal)
        /\ Strategy(Api) \in {2, 3}
        /\ r.app_resolved = Some(Api)

\* C8: the trail is a non-empty prefix of one fixed sequence (per scope its
\* versioned and its version-less path, then per scope its filename pattern,
\* then per scope its grep pattern); an entry is in the trail before its
\* candidate is tested, whether or not the scope's controllers directory
\* exists; on a hit the trail ends with the entry that produced the hit, on
\* not-found it is the whole sequence, 4 entries per scope considered.
C8_TrailIsPrefix ==
    \A r \in resolved :
        LET tried == r.probe.tried
            n     == Len(Considered)
        IN  /\ Len(tried) >= 1
            /\ Len(tried) <= Len(FullTrail)
            /\ tried = SubSeq(FullTrail, 1, Len(tried))
            /\ Len(FullTrail) = 4 * n
            /\ ~r.probe.found => tried = FullTrail
            /\ r.probe.found =>
                 \A p \in r.controller_file, a \in r.app_resolved :
                    LET last == tried[Len(tried)]
                    IN  \/ last = p
                        \/ /\ Len(tried) > 2 * n
                           /\ IsPrefix(ControllersDir(a), last)
                           /\ Under(ControllersDir(a), p)

\* a hit of the grep strategy in portal while api has no controllers
\* directory: all 8 entries were tried, the last one produced the hit
C8_Witness ==
    \E r \in resolved :
        /\ app_choice = Auto
        /\ r.probe.found
        /\ ~Present(ControllersDir(Api))
        /\ Len(r.probe.tried) = 8

\* C9: not-found is a value: when no strategy locates the controller in any
\* scope considered (a missing controllers directory and a file that cannot
\* be read included), the result has found false and neither file nor scope;
\* in every result found, a present controller_file and a present
\* app_resolved go together, and app_resolved is a scope considered.
C9_NotFoundIsAValue ==
    \A r \in resolved :
        /\ (\A k \in 1 .. Len(Considered) : ~Locatable(Considered[k])) =>
              /\ ~r.probe.found
              /\ r.controller_file = None
              /\ r.app_resolved = None
        /\ r.probe.found <=> (r.controller_file # None)
        /\ r.probe.found <=> (r.app_resolved # None)
        /\ \A a \in r.app_resolved : \E k \in 1 .. Len(Considered) : Considered[k] = a

\* not-found although a file names the class: it cannot be read, and the
\* other scope has no controllers directory
C9_Witness ==
    \E r \in resolved :
        /\ app_choice = Auto
        /\ ~r.probe.found
        /\ \E f \in fs_files : ~f.readable /\ \E cls \in f.classes : LowerSeq(cls) = LowerSeq(controller)
        /\ \E k \in 1 .. Len(Considered) : ~Present(ControllersDir(Considered[k]))

\* C10: the exact list of match holds precisely the rows, in inventory
\* order, whose verb is the upper-cased verb asked for, whose path is the
\* path asked for without its surrounding slashes and, when a version is
\* given, whose version is that version lower-cased and "v"-prefixed ("1",
\* "V1" and "v1" ask the same); with no version given, rows of every version.
C10_ExactMatches ==
    \A q \in query, a \in answer :
        (q.op = "match" /\ a.kind = "return") =>
            /\ \A j \in 1 .. Len(a.exact) :
                  /\ a.exact[j] \in 1 .. Len(rows)
                  /\ j > 1 => a.exact[j - 1] < a.exact[j]
            /\ \A k \in 1 .. Len(rows) :
                  (\E j \in 1 .. Len(a.exact) : a.exact[j] = k)
                    <=> /\ rows[k].http_method = AskedVerb(q)
                        /\ rows[k].endpoint_path = AskedPath(q)
                        /\ VersionGiven(q) => rows[k].version = AskedVersion(q)

\* a query written "V1" with slashes around its path that returns a row and
\* leaves out a row of the same verb and path in the other version
C10_Witness ==
    \E q \in query, a \in answer :
        /\ q.op = "match" /\ a.kind = "return"
        /\ q.version = Some(<<"V", "1">>)
        /\ q.endpoint_path # AskedPath(q)
        /\ Len(a.exact) >= 1
        /\ \E k \in 1 .. Len(rows) :
              /\ rows[k].http_method = AskedVerb(q)
              /\ rows[k].endpoint_path = AskedPath(q)
              /\ rows[k].version = V2

\* ---- near misses (reference)

\* whether s is a run of consecutive characters of t
SubstringOf(s, t) == \E a \in 0 .. Len(t) : \E b \in a .. Len(t) : Slice(t, a, b) = s

\* the part of s after its last "/", the whole of s when it has none
FinalSegment(s) ==
    CHOOSE u \in {SubSeq(s, k, Len(s)) : k \in 1 .. (Len(s) + 1)} :
        /\ \A j \in DOMAIN u : u[j] # "/"
        /\ Len(u) = Len(s) \/ s[Len(s) - Len(u)] = "/"

\* whether row r is near the path p asked for
Near(r, p) ==
    \/ SubstringOf(p, r.endpoint_path)
    \/ SubstringOf(r.endpoint_path, p)
    \/ FinalSegment(p) = FinalSegment(r.endpoint_path)

\* the rows of rs in another order: rs[p[1]], rs[p[2]], ...
Reordered(rs, p) == [k \in 1 .. Len(rs) |-> rs[p[k]]]

\* the orders of n rows that exchange two of them, or none.  Every order is
\* reached by such exchanges, and every inventory is a state of its own.
Orders(n) ==
    {[k \in 1 .. n |-> IF k = i THEN j ELSE IF k = j THEN i ELSE k] : i, j \in 1 .. n}

\* the elements of a list
Elements(l) == {l[j] : j \in 1 .. Len(l)}

\* C11: infer_version returns the versions of exactly the rows whose verb
\* and normalised path are those asked for, the rows match returns as exact
\* when no version is given: each version once, in ascending order; the
\* list is empty when no row matches, has one element when the matching
\* rows share a version and holds every version otherwise.
C11_InferVersion ==
    \A q \in query, a \in answer :
        (q.op = "infer_version" /\ a.kind = "return") =>
            LET hits == {k \in 1 .. Len(rows) :
                            rows[k].http_method = AskedVerb(q) /\ rows[k].endpoint_path = AskedPath(q)}
                m    == match(rows, q.http_method, q.endpoint_path, None)
            IN  /\ m.kind = "return" /\ Elements(m.exact) = hits
                /\ Elements(a.versions) = {rows[k].version : k \in hits}
                /\ \A j \in 2 .. Len(a.versions) : StrLess(a.versions[j - 1], a.versions[j])
                /\ hits = {} <=> a.versions = <<>>
                /\ (hits # {} /\ \A i, j \in hits : rows[i].version = rows[j].version)
                      <=> Len(a.versions) = 1

\* three matching rows holding v2, then v1, then a repeated version: the
\* answer is v1, v2
C11_Witness ==
    \E q \in query, a \in answer :
        /\ q.op = "infer_version" /\ a.kind = "return"
        /\ a.versions = <<V1, V2>>
        /\ Len(rows) = 3
        /\ \A k \in 1 .. 3 : rows[k].http_method = AskedVerb(q) /\ rows[k].endpoint_path = AskedPath(q)
        /\ rows[1].version = V2 /\ rows[2].version = V1

\* C12 as stated: the suggestions of match hold every row of the verb asked
\* for whose path has the path asked for inside it, or is inside it, or ends
\* in the same segment; no row of another verb; and the same rows whatever
\* version is given and whether or not a row matches exactly.
C12_SuggestionsHoldEveryNearRow ==
    \A q \in query, a \in answer :
        (q.op = "match" /\ a.kind = "return") =>
            /\ \A k \in 1 .. Len(rows) :
                  (rows[k].http_method = AskedVerb(q) /\ Near(rows[k], AskedPath(q)))
                     => k \in Elements(a.suggestions)
            /\ \A k \in Elements(a.suggestions) : rows[k].http_method = AskedVerb(q)
            /\ \A v \in QueryVersions :
                  match(rows, q.http_method, q.endpoint_path, v).suggestions = a.suggestions

\* C12, amended: when the path asked for is not empty once normalised, the
\* suggestions are exactly the rows of the verb asked for that are near it,
\* each once and in inventory order, whatever version is given and whether
\* or not a row matches exactly; when it is empty there are no suggestions.
C12_SuggestionsOfANonEmptyPath ==
    \A q \in query, a \in answer :
        (q.op = "match" /\ a.kind = "return") =>
            /\ \A j \in 2 .. Len(a.suggestions) : a.suggestions[j - 1] < a.suggestions[j]
            /\ Elements(a.suggestions) =
                  {k \in 1 .. Len(rows) :
                      /\ AskedPath(q) # <<>>
                      /\ rows[k].http_method = AskedVerb(q)
                      /\ Near(rows[k], AskedPath(q))}
            /\ \A v \in QueryVersions :
                  match(rows, q.http_method, q.endpoint_path, v).suggestions = a.suggestions

\* a query with no exact match whose suggestions hold a row that has the
\* path asked for inside it and a row that only ends in the same segment,
\* and leave out a row of the other verb that is near too
C12_Witness ==
    \E q \in query, a \in answer :
        /\ q.op = "match" /\ a.kind = "return"
        /\ a.exact = <<>>
        /\ \E i, j \in Elements(a.suggestions) :
              /\ SubstringOf(rows[i].endpoint_path, AskedPath(q))
              /\ ~SubstringOf(rows[j].endpoint_path, AskedPath(q))
              /\ ~SubstringOf(AskedPath(q), rows[j].endpoint_path)
        /\ \E k \in 1 .. Len(rows) :
              /\ k \notin Elements(a.suggestions)
              /\ Near(rows[k], AskedPath(q))

\* the exact rows of the last call, had the inventory held its rows in the
\* order p: told as indexes of rows
ExactIfReordered(q, p) ==
    {p[k] : k \in Elements(match(Reordered(rows, p), q.http_method, q.endpoint_path, q.version).exact)}

\* the exact rows of every match do not depend on the order of the rows
C20_OrderIndependent ==
    \A q \in query, a \in answer :
        (q.op = "match" /\ a.kind = "return") =>
            /\ \A p \in Orders(Len(rows)) : ExactIfReordered(q, p) = Elements(a.exact)
            /\ \A j \in 2 .. Len(a.exact) : a.exact[j - 1] < a.exact[j]

\* C20: a call of match or of infer_version leaves Inventory.rows as it was,
\* content and order; a call with the arguments of the call before it
\* returns what that call returned; and the set of rows match returns as
\* exact is the same for every order of the inventory rows, the returned
\* list following the order of the inventory.
C20_ReadOnlyDeterministic ==
    /\ [][/\ rows' = rows
          /\ (query # None /\ query' = query) => answer' = answer]_vars
    /\ []C20_OrderIndependent

\* a match returning two of three rows, the row left out standing between
\* them, on an inventory whose rows differ
C20_Witness ==
    \E q \in query, a \in answer :
        /\ q.op = "match" /\ a.kind = "return"
        /\ Len(rows) = 3
        /\ a.exact = <<1, 3>>
        /\ rows[1] # rows[3]

CellText(c) == IF c.t = "none" THEN <<>> ELSE Trimmed(Str(c), Whitespace)

\* a cell that holds nothing: no value, blank text, or the number 0, which
\* the loader's truth test does not tell from no value
Empty(c) == c.t = "none" \/ CellText(c) = <<>> \/ (c.t = "int" /\ c.v = <<"0">>)

\* the sheet load reads, as an Optional
SheetAsked == {workbook[k] : k \in {j \in DOMAIN workbook : workbook[j].name = sheet_name}}

\* whether a column of the sheet is headed name
Heads(ws, name) == \E k \in DOMAIN ws.header : CellText(ws.header[k]) = name

\* the cell of a data row in the column headed name (the last such column)
CellUnder(ws, row, name) ==
    IF ~Heads(ws, name) THEN NoValue
    ELSE row[CHOOSE k \in DOMAIN ws.header :
                 /\ CellText(ws.header[k]) = name
                 /\ \A j \in DOMAIN ws.header : CellText(ws.header[j]) = name => j <= k]

FullNames == { <<"V", "e", "r", "s", "i", "o", "n">>, <<"C", "o", "n", "t", "r", "o", "l", "l", "e", "r">>, <<"H", "t", "t", "p", "M", "e", "t", "h", "o", "d">>, <<"M", "e", "t", "h", "o", "d">>, <<"M", "e", "t", "h", "o", "d", "B", "a", "s", "e">>, <<"E", "n", "d", "p", "o", "i", "n", "t", "P", "a", "t", "h">> }

VerbNames == { <<"M", "é", "t", "o", "d", "o">>, <<"M", "e", "t", "o", "d", "o">> }

PathName == <<"P", "a", "t", "h">>

\* the Full column set is complete
FullHeaded(ws) == \A name \in FullNames : Heads(ws, name)

\* a verb column together with Path
MinHeaded(ws) == Heads(ws, PathName) /\ \E name \in VerbNames : Heads(ws, name)

\* the verb column of a Minimal sheet
VerbColumn(ws) == IF Heads(ws, <<"M", "é", "t", "o", "d", "o">>) THEN <<"M", "é", "t", "o", "d", "o">> ELSE <<"M", "e", "t", "o", "d", "o">>

UpperText(t) == [k \in DOMAIN t |-> Upper(t[k])]

LowerText(t) == [k \in DOMAIN t |-> Lower(t[k])]

\* a version as rows hold it: lower case, "v" put in front unless it is there
AsVersion(t) == IF LowerText(t)[1] = "v" THEN LowerText(t) ELSE <<"v">> \o LowerText(t)

\* a path as rows hold it: blanks, then slashes, taken off both ends
AsPath(t) == Trimmed(Trimmed(t, Whitespace), {"/"})

RECURSIVE Segments(_)
\* the "/"-separated segments of a path, the last one first found
Segments(t) ==
    IF \A k \in DOMAIN t : t[k] # "/" THEN <<t>>
    ELSE Segments(SubSeq(t, 1, Len(t) - Len(FinalSegment(t)) - 1)) \o <<FinalSegment(t)>>

\* a data row of a Full sheet with all six required fields
Complete(ws, row) == \A name \in FullNames : ~Empty(CellUnder(ws, row, name))

\* the verb a data row names is one of the four
VerbKnown(ws, row, col) == UpperText(CellText(CellUnder(ws, row, col))) \in VALID_HTTP

\* the path of a data row of a Minimal sheet
MinPath(ws, row) == AsPath(CellText(CellUnder(ws, row, PathName)))

\* whether that path starts with a version segment
Versioned(ws, row) == LowerText(Segments(MinPath(ws, row))[1]) \in { <<"v", "1">>, <<"v", "2">> }

\* the path without its version segment
Remaining(ws, row) ==
    IF Versioned(ws, row)
    THEN AsPath(SubSeq(MinPath(ws, row), Len(Segments(MinPath(ws, row))[1]) + 2, Len(MinPath(ws, row))))
    ELSE MinPath(ws, row)

\* a data row of a Minimal sheet that is kept
Kept(ws, row) ==
    /\ ~Empty(CellUnder(ws, row, VerbColumn(ws)))
    /\ ~Empty(CellUnder(ws, row, PathName))
    /\ Len(Segments(Remaining(ws, row))) >= 2

\* C15: under the Minimal schema the rows loaded are the data rows with a
\* verb, a path and two segments or more left in the path once a leading v1
\* or v2 segment (in either letter case) is taken off; each has that segment
\* in lower case for version, v1 when there is none, the remaining path for
\* endpoint_path, its first and second segments for controller and
\* method_base, and method_base, "_" and the verb in lower case for method.
C15_MinimalSchemaRows ==
    \A r \in loaded, ws \in SheetAsked :
        (~FullHeaded(ws) /\ MinHeaded(ws) /\ r.kind = "return") =>
            LET kept(k) == Kept(ws, ws.data[k])
                ks == SelectSeq([k \in DOMAIN ws.data |-> k], kept)
            IN  /\ Len(r.rows) = Len(ks)
                /\ \A j \in DOMAIN ks :
                      LET row  == ws.data[ks[j]]
                          segs == Segments(Remaining(ws, row))
                          verb == UpperText(CellText(CellUnder(ws, row, VerbColumn(ws))))
                      IN  /\ r.rows[j].version =
                                IF Versioned(ws, row) THEN LowerText(Segments(MinPath(ws, row))[1])
                                ELSE <<"v", "1">>
                          /\ r.rows[j].endpoint_path = Remaining(ws, row)
                          /\ r.rows[j].controller = segs[1]
                          /\ r.rows[j].method_base = segs[2]
                          /\ r.rows[j].method = segs[2] \o <<"_">> \o LowerText(verb)
                          /\ r.rows[j].http_method = verb

\* a Minimal sheet loaded into the row of bank_account/dacustomer_bank, a
\* row whose version was written V2 in its path, with a row of one segment
\* skipped between them
C15_Witness ==
    \E r \in loaded, ws \in SheetAsked :
        /\ ~FullHeaded(ws) /\ MinHeaded(ws) /\ r.kind = "return"
        /\ Len(ws.data) = 3 /\ Len(r.rows) = 2
        /\ r.rows[1].controller = <<"b", "a", "n", "k", "_", "a", "c", "c", "o", "u", "n", "t">>
        /\ r.rows[1].method_base = <<"d", "a", "c", "u", "s", "t", "o", "m", "e", "r", "_", "b", "a", "n", "k">>
        /\ r.rows[1].method = <<"d", "a", "c", "u", "s", "t", "o", "m", "e", "r", "_", "b", "a", "n", "k", "_", "g", "e", "t">>
        /\ r.rows[1].version = <<"v", "1">>
        /\ r.rows[2].version = <<"v", "2">>
        /\ Len(Segments(MinPath(ws, ws.data[2]))) = 1

\* C16: every row load produces, under either schema, has an endpoint_path
\* that neither starts nor ends with "/", one of GET, POST, PUT, DELETE for
\* http_method, and a version in lower case that starts with "v".
C16_RowInvariant ==
    \A r \in loaded :
        r.kind = "return" =>
            \A j \in DOMAIN r.rows :
                LET row == r.rows[j]
                IN  /\ row.endpoint_path = <<>>
                       \/ (row.endpoint_path[1] # "/" /\ row.endpoint_path[Len(row.endpoint_path)] # "/")
                    /\ row.http_method \in { <<"G", "E", "T">>, <<"P", "O", "S", "T">>, <<"P", "U", "T">>, <<"D", "E", "L", "E", "T", "E">> }
                    /\ row.version # <<>> /\ row.version[1] = "v"
                    /\ \A k \in DOMAIN row.version : \A u \in DOMAIN Uppers : row.version[k] # Uppers[u]

\* a Full sheet loaded into rows whose cells held a path in slashes, a verb
\* in lower case, a version in upper case and a version written as a number
C16_Witness ==
    \E r \in loaded, ws \in SheetAsked :
        /\ r.kind = "return" /\ FullHeaded(ws)
        /\ Len(r.rows) = 2
        /\ \E k \in DOMAIN ws.data :
              /\ CellText(CellUnder(ws, ws.data[k], <<"E", "n", "d", "p", "o", "i", "n", "t", "P", "a", "t", "h">>))[1] = "/"
              /\ CellText(CellUnder(ws, ws.data[k], <<"V", "e", "r", "s", "i", "o", "n">>)) = <<"V", "1">>
              /\ CellText(CellUnder(ws, ws.data[k], <<"H", "t", "t", "p", "M", "e", "t", "h", "o", "d">>)) = <<"g", "e", "t">>
        /\ \E k \in DOMAIN ws.data : CellUnder(ws, ws.data[k], <<"V", "e", "r", "s", "i", "o", "n">>).t = "int"
        /\ r.rows[1].version # r.rows[2].version

C18_ConfigurationErrors ==
    \A r \in loaded :
        /\ SheetAsked = {} =>
              /\ r.kind = "raise" /\ r.what = "Sheet not found"
              /\ r.names = [k \in DOMAIN workbook |-> workbook[k].name]
        /\ \A ws \in SheetAsked :
              /\ (~FullHeaded(ws) /\ ~MinHeaded(ws)) =>
                    /\ r.kind = "raise" /\ r.what = "Unsupported inventory format"
                    /\ \A k \in DOMAIN ws.header :
                          CellText(ws.header[k]) # <<>> => CellText(ws.header[k]) \in Elements(r.names)
                    /\ FullNames \subseteq Elements(r.names)
                    /\ { <<"M", "é", "t", "o", "d", "o">>, PathName } \subseteq Elements(r.names)
              /\ (FullHeaded(ws) \/ MinHeaded(ws)) =>
                    \/ r.kind = "return"
                    \/ r.kind = "raise" /\ r.what = "Invalid --http-method"

\* a sheet whose header row is the Full set short of Method: load raises,
\* naming the five headers found
C18_Witness ==
    \E r \in loaded, ws \in SheetAsked :
        /\ r.kind = "raise" /\ r.what = "Unsupported inventory format"
        /\ ~Heads(ws, <<"M", "e", "t", "h", "o", "d">>)
        /\ \A name \in FullNames \ { <<"M", "e", "t", "h", "o", "d">> } : Heads(ws, name) /\ name \in Elements(r.names)
        /\ ws.data # <<>>

\* ---- the stages of a run (reference)

\* the stages in the order the pipeline has them
StageOrder == <<"load", "infer_version", "match", "resolve", "extract", "generate">>

Place(stage) == CHOOSE k \in DOMAIN StageOrder : StageOrder[k] = stage

\* whether the run has started the stage
Started(stage) == \E k \in DOMAIN run.stages : run.stages[k] = stage

\* the rows of the inventory with the verb and the path asked for
Answering ==
    {k \in DOMAIN rows : rows[k].http_method = AskedVerb(args) /\ rows[k].endpoint_path = AskedPath(args)}

\* the versions the lookup is made in: the one given, else those inferred
LookupVersions ==
    IF VersionGiven(args) THEN {AskedVersion(args)} ELSE {rows[k].version : k \in Answering}

\* the rows that are exact for the run
ExactRows == {k \in Answering : rows[k].version \in LookupVersions}

\* whether a started stage did not produce the input of the next one
Failed(stage) ==
    /\ Started(stage)
    /\ CASE stage = "load" -> \E l \in loaded : l.kind = "raise"
         [] stage = "infer_version" -> Cardinality(LookupVersions) # 1
         [] stage = "match" -> Cardinality(ExactRows) # 1
         [] stage = "resolve" -> \A r \in resolved : r.controller_file = None
         [] stage = "extract" -> \A e \in ext : ~e.found
         [] OTHER -> FALSE

\* the stages started so far are in order and each followed a success
StagesInOrder ==
    /\ \A i, j \in DOMAIN run.stages : i < j => Place(run.stages[i]) < Place(run.stages[j])
    /\ \A i, j \in DOMAIN run.calls : i < j => run.calls[i] # run.calls[j]
    /\ Started("infer_version") <=> (Started("load") /\ ~Failed("load") /\ ~VersionGiven(args)
                                        /\ run.pc \notin {"infer"})
    /\ Started("match") =>
          /\ Started("load") /\ ~Failed("load")
          /\ VersionGiven(args) \/ (Started("infer_version") /\ Cardinality(LookupVersions) = 1)
    /\ Started("resolve") =>
          /\ Started("match") /\ Cardinality(ExactRows) = 1
          /\ run.row = {rows[k] : k \in ExactRows}
    /\ Started("extract") =>
          /\ Started("resolve")
          /\ \E r \in resolved : r.controller_file # None
    /\ Started("generate") =>
          /\ Started("extract")
          /\ \E e \in ext : e.found
    /\ \A k \in DOMAIN run.stages :
          Failed(run.stages[k]) => k = Len(run.stages) /\ run.pc = "done" /\ run.exit # None

\* C13: main starts its stages in the fixed order load, infer-version (only
\* when no version was given), exact-match lookup, controller resolution,
\* method extraction, generation; a stage starts only after every earlier one
\* succeeded (resolution after exactly one exact row, extraction after a
\* controller file was found, generation after the method was found); a
\* stage that fails is the last one of the run, which has then ended; no
\* stage and no call is made twice, and each step starts at most one stage.
C13_StagesStartInOrder ==
    /\ []StagesInOrder
    /\ [][\/ run'.stages = run.stages
          \/ /\ Len(run'.stages) = Len(run.stages) + 1
             /\ SubSeq(run'.stages, 1, Len(run.stages)) = run.stages]_vars

\* a run without --version goes through every stage and returns 0
C13_Witness ==
    /\ run.pc = "done"
    /\ run.exit = Some([by |-> "return", code |-> 0])
    /\ run.stages = StageOrder
    /\ ~VersionGiven(args)

\* ---- what a run leaves in the output folder (reference)

\* the five unresolved outcomes
UnresolvedOutcomes ==
    { "Unresolved Endpoint", "Ambiguous Version", "Ambiguous Inventory Match",
      "Controller Not Found", "Method Not Found" }

\* the paths the run wrote, as a set
Written == {run.written[k] : k \in DOMAIN run.written}

\* C14: main returns 2 in each of the five unresolved outcomes, having
\* written exactly one file, an unresolved.md below <out>/unresolved/, and
\* nothing below <out>/resolved/; it returns 0 only when every stage
\* succeeded and the resolved outputs were written, and then it has written
\* no unresolved report.
C14_ExitStatusAndReports ==
    /\ (\E stage \in {"infer_version", "match", "resolve", "extract"} : Failed(stage)) =>
          run.exit = Some([by |-> "return", code |-> 2])
    /\ \A e \in run.exit :
          /\ (e.by = "return" /\ e.code = 2) =>
                /\ run.failed # None /\ run.failed \subseteq UnresolvedOutcomes
                /\ Len(run.written) = 1
                /\ \A p \in Written :
                      /\ p[Len(p)] = UnresolvedMd
                      /\ Under(<<Unresolved>>, p)
                      /\ ~Under(<<ResolvedDir>>, p)
          /\ (e.by = "return" /\ e.code = 0) =>
                /\ run.failed = None
                /\ run.stages \in {StageOrder, SubSeq(StageOrder, 1, 1) \o SubSeq(StageOrder, 3, 6)}
                /\ \A stage \in Elements(run.stages) : ~Failed(stage)
                /\ Written # {}
                /\ \A p \in Written : Under(<<ResolvedDir>>, p) /\ p[Len(p)] # UnresolvedMd

\* a run that returned 2 and whose one report is <out>/resolved/unresolved.md
C14_Witness ==
    /\ run.exit = Some([by |-> "return", code |-> 2])
    /\ run.failed = Some("Unresolved Endpoint")
    /\ run.written = << <<ResolvedDir, UnresolvedMd>> >>
    /\ args.version = Some(<<"v", "/", ".", ".", "/", ".", ".", "/", "r", "e", "s", "o", "l", "v", "e", "d">>)

\* ---- the configuration of a run (reference)

\* a value that is absent or blank
Blank(value) == \A v \in value : Trimmed(v, Whitespace) = <<>>

\* the repo root or the inventory path is given neither by its flag nor by
\* the environment
ConfigMissing ==
    \/ Blank(argv.repo_root) /\ Blank(environ.PHP2NODE_REPO_ROOT)
    \/ Blank(argv.inventory_xlsx) /\ Blank(environ.PHP2NODE_INVENTORY_XLSX)

RECURSIVE QuoteOpens(_, _)
\* the offsets at or after k of the quotes that open a string, k being in code
QuoteOpens(src, k) ==
    IF k >= Len(src) THEN {}
    ELSE IF At(src, k) = "/" /\ At(src, k + 1) = "/" THEN QuoteOpens(src, SkipLine(src, k + 2))
    ELSE IF At(src, k) = "/" /\ At(src, k + 1) = "*" THEN QuoteOpens(src, SkipBlock(src, k + 2))
    ELSE IF At(src, k) = "#" THEN QuoteOpens(src, SkipLine(src, k + 1))
    ELSE IF At(src, k) \in {"'", "\""} THEN {k} \cup QuoteOpens(src, SkipString(src, k + 1, At(src, k)))
    ELSE QuoteOpens(src, k + 1)

\* the opening quotes before offset i, the scan having started in code at
\* the first "{"
OpensBefore(i) ==
    {k \in QuoteOpens(source, Min(OpenOffsets(source, start_idx))) : k < i}

RECURSIVE BackslashRun(_, _, _)
\* how many consecutive backslashes end just before offset i, after offset open
BackslashRun(src, open, i) ==
    IF i - 1 > open /\ At(src, i - 1) = "\\" THEN 1 + BackslashRun(src, open, i - 1) ELSE 0

\* the scan is about to read a character of a string
ReadsInString ==
    /\ sc.pc = "loop" /\ sc.i < Len(source)
    /\ ~sc.in_line_comment /\ ~sc.in_block_comment
    /\ sc.in_squote \/ sc.in_dquote

\* C22: a step inside a quoted string moves one character on and leaves the
\* depth alone; it closes the string exactly when the character read is the
\* quote of the string's own kind and the run of backslashes just before it,
\* counted back to the opening quote, has even length; the quote the string
\* was opened with is of that kind, and the other kind never closes it.
C22_BackslashEscapesNext ==
    [][ReadsInString =>
          /\ OpensBefore(sc.i) # {}
          /\ LET open   == CHOOSE k \in OpensBefore(sc.i) : \A j \in OpensBefore(sc.i) : j <= k
                 q      == IF sc.in_squote THEN "'" ELSE "\""
                 closes == At(source, sc.i) = q /\ BackslashRun(source, open, sc.i) % 2 = 0
             IN  /\ At(source, open) = q
                 /\ sc.escape <=> (BackslashRun(source, open, sc.i) % 2 = 1)
                 /\ sc'.pc = "loop" /\ sc'.i = sc.i + 1 /\ sc'.brace = sc.brace
                 /\ sc'.in_squote = (sc.in_squote /\ ~closes)
                 /\ sc'.in_dquote = (sc.in_dquote /\ ~closes)
                 /\ ~sc'.in_line_comment /\ ~sc'.in_block_comment]_vars

\* the finished scan of { '\'}' } : the "}" after the escaped quote is passed
\* over and the last "}" is returned
C22_Witness ==
    /\ source = <<"{", "'", "\\", "'", "}", "'", "}">>
    /\ start_idx = 0
    /\ sc.pc = "done"
    /\ sc.ret = Some(6)

\* ---- how far a scan is from its end (reference)

\* a bound on the steps a scan has left: two for each character not yet
\* passed, and what the phase it is in adds
StepsLeft ==
    2 * (Len(source) - sc.i) + (CASE sc.pc = "seek" -> 2 [] sc.pc = "loop" -> 1 [] OTHER -> 0)

\* C23: the scan is a single forward pass that ends: the index never goes
\* back and never passes the length of the text; every step that does not
\* end the scan moves the index on by 1 or 2 (the step from the search for
\* the first "{" to the main loop apart, which is no iteration of a loop);
\* with the index at the length of the text the next step returns None; a
\* returned index is the index the scan stands at; and the scan does return,
\* since a scan that has not returned can take a step and every step brings
\* StepsLeft, which is never negative, down.
C23_SingleForwardPass ==
    /\ [](/\ start_idx <= sc.i /\ sc.i <= Len(source)
          /\ StepsLeft >= 0
          /\ sc.pc # "done" => ENABLED NextScan)
    /\ [][/\ sc'.i >= sc.i
          /\ sc.pc # "done"
          /\ StepsLeft' < StepsLeft
          /\ (sc'.pc = sc.pc) => (sc'.i - sc.i \in {1, 2})
          /\ (sc'.pc # sc.pc) => (sc'.i = sc.i /\ <<sc.pc, sc'.pc>> \in {<<"seek", "loop">>, <<"seek", "done">>, <<"loop", "done">>})
          /\ (sc.i >= Len(source)) => (sc'.pc = "done" /\ sc'.ret = None)
          /\ (sc'.pc = "done") => (sc'.ret = None \/ sc'.ret = Some(sc.i))
          /\ (sc'.pc # "done") => (sc'.ret = None)]_vars

\* the finished scan of {/*}*/} , which passes "/*" and "*/" two characters
\* at a time and returns the last offset of the text
C23_Witness ==
    /\ source = <<"{", "/", "*", "}", "*", "/", "}">>
    /\ start_idx = 0
    /\ sc.pc = "done"
    /\ sc.ret = Some(6)

\* ---- the lexer's flags (reference)

\* how many of the four flags are set
FlagsSet ==
    Cardinality({f \in {"in_squote", "in_dquote", "in_line_comment", "in_block_comment"} : sc[f]})

\* C30: in the main loop at most one of the four flags is set and the escape
\* flag is set only inside a quoted string; at the opening brace the depth
\* is 0 and no flag is set, from the step after it until the scan returns
\* the depth is at least 1; a returned index lies after the opening brace
\* and holds a "}" that was read with no flag set.
C30_LexerState ==
    /\ FlagsSet <= 1
    /\ sc.escape => (sc.in_squote \/ sc.in_dquote)
    /\ sc.pc = "seek" => (FlagsSet = 0 /\ sc.brace = 0)
    /\ sc.pc = "loop" =>
          LET open == Min(OpenOffsets(source, start_idx))
          IN  /\ sc.i >= open
              /\ sc.i = open => (sc.brace = 0 /\ FlagsSet = 0 /\ ~sc.escape)
              /\ sc.i > open => sc.brace >= 1
    /\ \A r \in sc.ret :
          /\ r > Min(OpenOffsets(source, start_idx))
          /\ r = sc.i
          /\ At(source, r) = "}"
          /\ FlagsSet = 0 /\ ~sc.escape

\* a scan inside a double-quoted string of the block, just after a backslash
C30_Witness ==
    /\ sc.pc = "loop"
    /\ sc.in_dquote /\ sc.escape
    /\ sc.brace = 1
    /\ At(source, sc.i - 1) = "\\"

\* C24: every row loaded under the Minimal schema has for
\* endpoint_path_with_version its version, "/" and its endpoint_path, also
\* when the version was defaulted to v1 and when the path's version prefix
\* was written in upper case.
C24_PathPrefixedByVersion ==
    \A r \in loaded, ws \in SheetAsked :
        (~FullHeaded(ws) /\ MinHeaded(ws) /\ r.kind = "return") =>
            \A j \in DOMAIN r.rows :
                r.rows[j].endpoint_path_with_version =
                    Some(r.rows[j].version \o <<"/">> \o r.rows[j].endpoint_path)

\* a Minimal sheet loaded into a row of version v1 whose
\* endpoint_path_with_version is bank_account/dacustomer_bank, without v1
C24_Witness ==
    \E r \in loaded, ws \in SheetAsked :
        /\ ~FullHeaded(ws) /\ MinHeaded(ws) /\ r.kind = "return"
        /\ \E j \in DOMAIN r.rows :
              /\ r.rows[j].version = <<"v", "1">>
              /\ r.rows[j].endpoint_path = <<"b", "a", "n", "k", "_", "a", "c", "c", "o", "u", "n", "t", "/", "d", "a", "c", "u", "s", "t", "o", "m", "e", "r", "_", "b", "a", "n", "k">>
              /\ r.rows[j].endpoint_path_with_version = Some(<<"b", "a", "n", "k", "_", "a", "c", "c", "o", "u", "n", "t", "/", "d", "a", "c", "u", "s", "t", "o", "m", "e", "r", "_", "b", "a", "n", "k">>)

\* C25: when no version was given and the run has gone on from the
\* inference, infer_version returned exactly one version, the lookup is made
\* with it and match returns at least one exact row for it; a run that ends
\* in the match stage with no exact row was given its version by the user;
\* and a controller resolved after an inference is resolved with the version
\* of the matched row, which is the inferred one.
C25_InferredVersionMatches ==
    /\ (Started("infer_version") /\ (run.pc = "match" \/ Started("match"))) =>
          /\ ~VersionGiven(args)
          /\ infer_version(rows, args.http_method, args.endpoint_path).versions
                = <<CHOOSE v \in run.version : TRUE>>
          /\ Cardinality(run.version) = 1
          /\ match(rows, args.http_method, args.endpoint_path, run.version).exact # <<>>
          /\ \A k \in Elements(match(rows, args.http_method, args.endpoint_path, run.version).exact) :
                Some(rows[k].version) = run.version
    /\ (run.failed = Some("Unresolved Endpoint") /\ Started("match")) => VersionGiven(args)
    /\ (Started("infer_version") /\ Started("resolve")) =>
          \A row \in run.row : Some(row.version) = run.version /\ version = row.version

\* a run without --version that inferred v1, matched one row and resolved
\* its controller in v1
C25_Witness ==
    /\ ~VersionGiven(args)
    /\ Started("resolve")
    /\ run.version = Some(<<"v", "1">>)
    /\ version = <<"v", "1">>
    /\ \E r \in resolved : r.controller_file # None

\* ---- the direct candidates of auto mode (reference)

\* scope first, layout second
AutoOrder ==
    << [app |-> Api, path |-> VersionedPath(Api)], [app |-> Api, path |-> VersionlessPath(Api)],
       [app |-> Portal, path |-> VersionedPath(Portal)], [app |-> Portal, path |-> VersionlessPath(Portal)] >>

\* C26: in auto mode, when a direct candidate exists, the candidates are
\* tested in the order api versioned, api version-less, portal versioned,
\* portal version-less: the trail is that order up to the first candidate
\* that exists, which is returned with its scope; so with only the
\* version-less file in api and the versioned file in portal, the api
\* version-less file is returned, app_resolved is api and the trail has
\* exactly 2 entries.
C26_ScopeBeforeLayout ==
    \A r \in resolved :
        LET hits == {k \in 1 .. 4 : Present(AutoOrder[k].path)}
        IN  (app_choice = Auto /\ hits # {}) =>
               /\ r.probe.found
               /\ r.probe.tried = [k \in 1 .. Min(hits) |-> AutoOrder[k].path]
               /\ r.controller_file = Some(AutoOrder[Min(hits)].path)
               /\ r.probe.path = r.controller_file
               /\ r.app_resolved = Some(AutoOrder[Min(hits)].app)
               /\ (/\ ~Present(VersionedPath(Api)) /\ Present(VersionlessPath(Api))
                   /\ Present(VersionedPath(Portal))) =>
                     /\ r.controller_file = Some(VersionlessPath(Api))
                     /\ r.app_resolved = Some(Api)
                     /\ Len(r.probe.tried) = 2

\* api holds only the version-less file, portal the file under the requested
\* version, and the api file was returned after two tests
C26_Witness ==
    \E r \in resolved :
        /\ app_choice = Auto
        /\ \E f \in fs_files : f.path = VersionlessPath(Api)
        /\ \E f \in fs_files : f.path = VersionedPath(Portal)
        /\ ~Present(VersionedPath(Api))
        /\ r.controller_file = Some(VersionlessPath(Api))
        /\ Len(r.probe.tried) = 2

\* C27: the suggestions of match hold each row at most once, in inventory
\* order; when the path asked for is not empty once normalised, every exact
\* row is among the suggestions; when it is empty, there are no suggestions.
C27_SuggestionsHoldExactRows ==
    \A q \in query, a \in answer :
        (q.op = "match" /\ a.kind = "return") =>
            /\ \A i, j \in DOMAIN a.suggestions :
                  i < j => a.suggestions[i] < a.suggestions[j]
            /\ Elements(a.suggestions) \subseteq DOMAIN rows
            /\ AskedPath(q) # <<>> => Elements(a.exact) \subseteq Elements(a.suggestions)
            /\ AskedPath(q) = <<>> => a.suggestions = <<>>

\* a match in a given version: the exact row has the path asked for, so it
\* has it inside it and ends in the same segment, and is suggested once; a
\* row of the other version is suggested after it and is not exact
C27_Witness ==
    \E q \in query, a \in answer :
        /\ q.op = "match" /\ a.kind = "return"
        /\ VersionGiven(q)
        /\ Len(a.exact) = 1 /\ Len(a.suggestions) = 2
        /\ a.suggestions[1] = a.exact[1]
        /\ rows[a.suggestions[1]].endpoint_path = AskedPath(q)
        /\ rows[a.suggestions[2]].endpoint_path = AskedPath(q)
        /\ rows[a.suggestions[2]].version # rows[a.suggestions[1]].version

\* ---- rows that name an unknown verb (reference)

\* the column the verb is read from
VerbHeading(ws) ==
    IF FullHeaded(ws) THEN <<"H", "t", "t", "p", "M", "e", "t", "h", "o", "d">> ELSE VerbColumn(ws)

\* a data row with every field its schema requires
Filled(ws, row) ==
    IF FullHeaded(ws) THEN Complete(ws, row)
    ELSE ~Empty(CellUnder(ws, row, VerbColumn(ws))) /\ ~Empty(CellUnder(ws, row, PathName))

\* the data rows that have every required field and a verb that is none of
\* GET, POST, PUT, DELETE in any letter case
Offending(ws) ==
    {k \in DOMAIN ws.data : Filled(ws, ws.data[k]) /\ ~VerbKnown(ws, ws.data[k], VerbHeading(ws))}

\* C28: under either schema a data row with all required fields and a verb
\* that is not one of GET, POST, PUT, DELETE (letter case apart) is not
\* skipped: load raises a ValueError and returns no rows at all, whatever
\* rows stand before or after it; the error is about the first such row.
C28_InvalidVerbRaises ==
    \A r \in loaded, ws \in SheetAsked :
        ((FullHeaded(ws) \/ MinHeaded(ws)) /\ Offending(ws) # {}) =>
            /\ r.kind = "raise"
            /\ r.error = "ValueError"
            /\ r.what = "Invalid --http-method"
            /\ "rows" \notin DOMAIN r
            /\ LET first == CHOOSE k \in Offending(ws) : \A j \in Offending(ws) : k <= j
               IN  \A k \in DOMAIN r.names :
                      Trimmed(r.names[k], Whitespace) = CellText(CellUnder(ws, ws.data[first], VerbHeading(ws)))

\* a Minimal sheet of three data rows, the first and the third good, the
\* second with a path and the verb patch: load raised
C28_Witness ==
    \E r \in loaded, ws \in SheetAsked :
        /\ ~FullHeaded(ws) /\ MinHeaded(ws)
        /\ Len(ws.data) = 3
        /\ Offending(ws) = {2}
        /\ Kept(ws, ws.data[1]) /\ Kept(ws, ws.data[3])
        /\ r.kind = "raise"

\* ---- a normaliser applied to its own result (reference)

\* norm_http(norm_http(m)); the inner call raising, the whole raises
TwiceHttp(m) == IF norm_http(m) = None THEN None ELSE norm_http(CHOOSE x \in norm_http(m) : TRUE)

\* C29: the normalisers are idempotent: for the verb, the path and the
\* version of every query, normalising the normalised value gives it back;
\* and every row of the inventory is among the exact rows of a match asked
\* with the row's own verb and endpoint_path.
C29_NormalisersIdempotent ==
    /\ \A q \in query :
          /\ norm_endpoint_path(norm_endpoint_path(q.endpoint_path)) = norm_endpoint_path(q.endpoint_path)
          /\ norm_version(norm_version(q.version)) = norm_version(q.version)
          /\ TwiceHttp(q.http_method) = norm_http(q.http_method)
    /\ \A k \in DOMAIN rows :
          LET m == match(rows, rows[k].http_method, rows[k].endpoint_path, None)
          IN  m.kind = "return" /\ k \in Elements(m.exact)

\* a match asked with the path "/ a/b": normalised once it is " a/b", which
\* no row has, so no row is exact; normalised twice it is a/b, the path of
\* a row of the inventory with the verb asked for
C29_Witness ==
    \E q \in query, a \in answer :
        /\ q.op = "match" /\ a.kind = "return"
        /\ q.endpoint_path = <<"/", " ", "a", "/", "b">>
        /\ norm_endpoint_path(q.endpoint_path) = <<" ", "a", "/", "b">>
        /\ norm_endpoint_path(norm_endpoint_path(q.endpoint_path)) = <<"a", "/", "b">>
        /\ a.exact = <<>>
        /\ \E k \in DOMAIN rows :
              rows[k].endpoint_path = <<"a", "/", "b">> /\ rows[k].http_method = AskedVerb(q)

====
